---- MODULE Spec2Model ----
(***************************************************************************)
(* Model of the seeded JSON test-data generator                            *)
(* (cypress/utils/json-data-generator.ts), of the data-generator commands  *)
(* that share one module-level generator, and of the generator's clock     *)
(* and template store.                                                     *)
(*                                                                         *)
(* Numbers.  A value returned by random() is currentSeed / 233280; the     *)
(* model carries the numerator x and computes floor(random() * n) as       *)
(* (x * n) \div 233280, over exact rationals.  Products that do not fit    *)
(* TLC's 32-bit integers are split into partial products (MulMod,          *)
(* FloorMulBig); the split changes no result.                              *)
(*                                                                         *)
(* Values.  A generated JavaScript value is a tagged record:               *)
(*   [t |-> "string", v |-> s]       [t |-> "boolean", b |-> TRUE]         *)
(*   [t |-> "number", n |-> k, scale |-> 10^d]     (the number k / 10^d)   *)
(*   [t |-> "object", f |-> << <<key, value>>, ... >>]   (insertion order) *)
(*   [t |-> "array", a |-> << value, ... >>]       [t |-> "undefined"]     *)
(***************************************************************************)
EXTENDS Integers, Sequences, FiniteSets, TLC

(***************************************************************************)
(* Seeded PRNG: createSeededRandom                                         *)
(***************************************************************************)
Multiplier == 9301
Increment == 49297
Modulus == 233280

\* (a * b) mod m for 0 < b < 10000, computed without a product above 2^31
MulMod(a, b, m) == ((((a * (b \div 100)) % m) * 100) + a * (b % 100)) % m

\* JavaScript's %: the remainder takes the sign of the dividend
\* currentSeed * 9301 + 49297; that dividend is negative exactly when
\* currentSeed < -(49297 \div 9301)
NextSeed(currentSeed) ==
  LET mm == (MulMod(currentSeed, Multiplier, Modulus) + Increment) % Modulus
      nonneg == currentSeed >= -(Increment \div Multiplier)
  IN  IF nonneg \/ mm = 0 THEN mm ELSE mm - Modulus

\* floor(random() * n) where random() returned x / Modulus
FloorMul(x, n) == (x * n) \div Modulus

\* the same for n up to about 10^5
FloorMulBig(x, n) ==
  LET hi == x * (n \div 100)
  IN  100 * (hi \div Modulus) + ((100 * (hi % Modulus) + x * (n % 100)) \div Modulus)

(***************************************************************************)
(* JavaScript values                                                       *)
(***************************************************************************)
Undefined == [t |-> "undefined"]
Str(s) == [t |-> "string", v |-> s]
Bool(b) == [t |-> "boolean", b |-> b]
Num(n, scale) == [t |-> "number", n |-> n, scale |-> scale]
Obj(fields) == [t |-> "object", f |-> fields]
Arr(items) == [t |-> "array", a |-> items]

\* record.key
FieldOf(record, key) ==
  record.f[CHOOSE i \in 1..Len(record.f) : record.f[i][1] = key][2]

\* `${value}` of a string or undefined
Interpolate(val) == IF val.t = "undefined" THEN "undefined" ELSE val.v

\* optional key of a JSON object, with JavaScript's `x || d` and `x = d` defaults
Has(o, key) == key \in DOMAIN o
OrDefault(o, key, d) == IF Has(o, key) /\ o[key] # 0 THEN o[key] ELSE d
Default(o, key, d) == IF Has(o, key) THEN o[key] ELSE d

\* a JSON number n / d of a template; `x || dflt` treats 0 as absent
Rat(n, d) == [n |-> n, d |-> d]
OrDefaultRat(o, key, dflt) ==
  IF Has(o, key) /\ o[key].n # 0 THEN o[key] ELSE Rat(dflt, 1)

(***************************************************************************)
(* Derived random operations.  Each takes the PRNG state s before the call *)
(* and returns the value with the state after it.                          *)
(***************************************************************************)
randomInt(s, min, max) ==
  LET x == NextSeed(s)
  IN  [v |-> FloorMul(x, max - min + 1) + min, s |-> x]

randomChoice(s, array) ==
  LET x == NextSeed(s)
      i == FloorMul(x, Len(array))
  IN  [v |-> IF i >= 0 /\ i < Len(array) THEN Str(array[i + 1]) ELSE Undefined,
       s |-> x]

randomBoolean(s) ==
  LET x == NextSeed(s)
  IN  [v |-> Bool(2 * x < Modulus), s |-> x]

Letters ==
  << "a","b","c","d","e","f","g","h","i","j","k","l","m",
     "n","o","p","q","r","s","t","u","v","w","x","y","z",
     "A","B","C","D","E","F","G","H","I","J","K","L","M",
     "N","O","P","Q","R","S","T","U","V","W","X","Y","Z",
     "0","1","2","3","4","5","6","7","8","9" >>
Digits == << "0","1","2","3","4","5","6","7","8","9" >>

\* charset.charAt(i): the empty string outside the charset
CharAt(charset, i) == IF i >= 0 /\ i < Len(charset) THEN charset[i + 1] ELSE ""

RECURSIVE randomStringFrom(_, _, _, _)
randomStringFrom(s, length, charset, result) ==
  IF length <= 0 THEN [v |-> result, s |-> s]
  ELSE LET x == NextSeed(s)
       IN  randomStringFrom(x, length - 1, charset,
                            result \o CharAt(charset, FloorMul(x, Len(charset))))

randomString(s, length, charset) == randomStringFrom(s, length, charset, "")

(***************************************************************************)
(* Primitive value generators                                              *)
(***************************************************************************)
NaN == [t |-> "NaN"]
Suffixes == << "_test", "_demo", "_sample", "_v2", "_new" >>

\* str + number and str + suffix: undefined + number is NaN
varyString(s, str) ==
  LET x1 == NextSeed(s)
  IN  IF 10 * x1 < 3 * Modulus
      THEN LET n == randomInt(x1, 1, 999)
           IN  [v |-> IF str.t = "undefined" THEN NaN
                      ELSE Str(str.v \o ToString(n.v)),
                s |-> n.s]
      ELSE LET x2 == NextSeed(x1)
           IN  IF 10 * x2 < 2 * Modulus
               THEN LET c == randomChoice(x2, Suffixes)
                    IN  [v |-> Str(Interpolate(str) \o Interpolate(c.v)), s |-> c.s]
               ELSE [v |-> str, s |-> x2]

\* data is an option: << >> when the template has no pool for the field
generateString(s, constraints, data, variations) ==
  IF data # << >> /\ Len(data[1]) > 0
  THEN LET value == randomChoice(s, data[1])
       IN  IF variations THEN varyString(value.s, value.v) ELSE value
  ELSE LET minLength == OrDefault(constraints, "minLength", 3)
           maxLength == OrDefault(constraints, "maxLength", 20)
           length == randomInt(s, minLength, maxLength)
           str == randomString(length.s, length.v, Letters)
       IN  [v |-> Str(str.v), s |-> str.s]

RECURSIVE Pow10(_)
Pow10(d) == IF d <= 0 THEN 1 ELSE 10 * Pow10(d - 1)

\* value.toFixed(decimal) of the rational p / q (q > 0), in units of 10^-decimal:
\* the nearest integer, the larger magnitude on a tie
RoundDiv(p, q) ==
  IF p >= 0 THEN (2 * p + q) \div (2 * q) ELSE -((2 * (-p) + q) \div (2 * q))

generateNumber(s, constraints) ==
  LET min == OrDefaultRat(constraints, "min", 0)
      max == OrDefaultRat(constraints, "max", 100)
      decimal == OrDefault(constraints, "decimal", 0)
      x == NextSeed(s)
      \* value = x / Modulus * (max - min) + min = p / q
      q == min.d * max.d * Modulus
      p == x * (max.n * min.d - min.n * max.d) + min.n * max.d * Modulus
  IN  [v |-> IF decimal > 0
             THEN Num(RoundDiv(p * Pow10(decimal), q), Pow10(decimal))
             ELSE Num(p \div q, 1),
       s |-> x]

EmailDomains == << "gmail.com", "yahoo.com", "hotmail.com", "outlook.com", "company.com" >>
EmailFirstNames == << "john", "jane", "mike", "sarah", "david", "emily", "chris", "lisa" >>
EmailLastNames == << "smith", "johnson", "williams", "brown", "jones", "garcia", "miller" >>

generateEmail(s) ==
  LET firstName == randomChoice(s, EmailFirstNames)
      lastName == randomChoice(firstName.s, EmailLastNames)
      domain == randomChoice(lastName.s, EmailDomains)
      number == randomInt(domain.s, 1, 999)
  IN  [v |-> Str(Interpolate(firstName.v) \o "." \o Interpolate(lastName.v)
                 \o ToString(number.v) \o "@" \o Interpolate(domain.v)),
       s |-> number.s]

generatePhone(s, constraints) ==
  LET format == IF Has(constraints, "format") /\ constraints.format # ""
                THEN constraints.format ELSE "us"
  IN  IF format = "us"
      THEN LET areaCode == randomInt(s, 200, 999)
               exchange == randomInt(areaCode.s, 200, 999)
               number == randomInt(exchange.s, 1000, 9999)
           IN  [v |-> Str("(" \o ToString(areaCode.v) \o ") " \o ToString(exchange.v)
                          \o "-" \o ToString(number.v)),
                s |-> number.s]
      ELSE LET str == randomString(s, 10, Digits)
           IN  [v |-> Str(str.v), s |-> str.s]

UrlProtocols == << "https://", "http://" >>
UrlDomains == << "example.com", "test.com", "demo.org", "sample.net" >>
UrlPaths == << "", "/page", "/product", "/user", "/api", "/docs" >>

generateUrl(s) ==
  LET protocol == randomChoice(s, UrlProtocols)
      domain == randomChoice(protocol.s, UrlDomains)
      path == randomChoice(domain.s, UrlPaths)
  IN  [v |-> Str(Interpolate(protocol.v) \o Interpolate(domain.v) \o Interpolate(path.v)),
       s |-> path.s]

\* enums is an option: << >> when the template lists none for the field
generateEnum(s, enums, variations) ==
  IF enums = << >> \/ Len(enums[1]) = 0 THEN [v |-> Str("unknown"), s |-> s]
  ELSE randomChoice(s, enums[1])

Words == << "lorem", "ipsum", "dolor", "sit", "amet", "consectetur", "adipiscing", "elit" >>
CapitalizedWords ==
  << "Lorem", "Ipsum", "Dolor", "Sit", "Amet", "Consectetur", "Adipiscing", "Elit" >>

\* one sentence: words joined by ' ' (join renders undefined as ''), the first
\* capitalized; left words remain, sentence is the text so far
RECURSIVE textSentence(_, _, _, _)
textSentence(s, left, first, sentence) ==
  IF left <= 0 THEN [v |-> sentence, s |-> s]
  ELSE LET x == NextSeed(s)
           i == FloorMul(x, Len(Words))
           word == IF i < 0 \/ i >= Len(Words) THEN ""
                   ELSE IF first THEN CapitalizedWords[i + 1] ELSE Words[i + 1]
       IN  textSentence(x, left - 1, FALSE,
                        IF first THEN word ELSE sentence \o " " \o word)

\* while (currentLength < length): sentences joined by ' '
RECURSIVE textSentences(_, _, _, _)
textSentences(s, length, currentLength, text) ==
  IF currentLength >= length THEN [v |-> Str(text), s |-> s]
  ELSE LET sentenceLength == randomInt(s, 5, 15)
           sentence == textSentence(sentenceLength.s, sentenceLength.v, TRUE, "")
       IN  textSentences(sentence.s, length, currentLength + Len(sentence.v) + 1,
                         IF currentLength = 0 THEN sentence.v \o "."
                         ELSE text \o " " \o sentence.v \o ".")

generateText(s, data, constraints) ==
  IF data # << >> /\ Len(data[1]) > 0 THEN randomChoice(s, data[1])
  ELSE LET minLength == OrDefault(constraints, "minLength", 50)
           maxLength == OrDefault(constraints, "maxLength", 500)
           length == randomInt(s, minLength, maxLength)
       IN  textSentences(length.s, length.v, 0, "")

(***************************************************************************)
(* Dates.  The clock is [day |-> days since 1970-01-01, ms |-> ms of day], *)
(* in UTC, which is also taken as the local time zone.                     *)
(***************************************************************************)
\* new Date(y, m - 1, d) as a day number
DaysFromCivil(y, m, d) ==
  LET yy == IF m <= 2 THEN y - 1 ELSE y
      era == yy \div 400
      yoe == yy - era * 400
      mp == IF m > 2 THEN m - 3 ELSE m + 9
      doy == ((153 * mp + 2) \div 5) + d - 1
      doe == yoe * 365 + (yoe \div 4) - (yoe \div 100) + doy
  IN  era * 146097 + doe - 719468

\* the calendar date of a day number
CivilFromDays(z) ==
  LET zz == z + 719468
      era == zz \div 146097
      doe == zz - era * 146097
      yoe == (doe - (doe \div 1460) + (doe \div 36524) - (doe \div 146096)) \div 365
      doy == doe - (365 * yoe + (yoe \div 4) - (yoe \div 100))
      mp == (5 * doy + 2) \div 153
      d == doy - ((153 * mp + 2) \div 5) + 1
      m == IF mp < 10 THEN mp + 3 ELSE mp - 9
  IN  [y |-> yoe + era * 400 + (IF m <= 2 THEN 1 ELSE 0), m |-> m, d |-> d]

getFullYear(now) == CivilFromDays(now.day).y

Pad2(n) == IF n < 10 THEN "0" \o ToString(n) ELSE ToString(n)
Pad4(n) ==
  IF n < 10 THEN "000" \o ToString(n)
  ELSE IF n < 100 THEN "00" \o ToString(n)
  ELSE IF n < 1000 THEN "0" \o ToString(n) ELSE ToString(n)

\* toISOString().split('T')[0] of a day number (years 0..9999)
ISODate(z) ==
  LET c == CivilFromDays(z)
  IN  Pad4(c.y) \o "-" \o Pad2(c.m) \o "-" \o Pad2(c.d)

\* minDate and maxDate are midnights, so the timestamp's day is
\* minDay + floor(random() * (maxDay - minDay))
generateDate(s, constraints, now) ==
  LET minAge == OrDefault(constraints, "minAge", 0)
      maxAge == OrDefault(constraints, "maxAge", 100)
      minDay == DaysFromCivil(getFullYear(now) - maxAge, 1, 1)
      maxDay == DaysFromCivil(getFullYear(now) - minAge, 12, 31)
      x == NextSeed(s)
  IN  [v |-> Str(ISODate(minDay + FloorMulBig(x, maxDay - minDay))), s |-> x]

DayMs == 86400000

\* floor(r * DayMs / Modulus) = floor(r * 10000 / 27) for 0 <= r < Modulus
MsOfFraction(r) == (r \div 27) * 10000 + (((r % 27) * 10000) \div 27)

Pad3(n) ==
  IF n < 10 THEN "00" \o ToString(n)
  ELSE IF n < 100 THEN "0" \o ToString(n) ELSE ToString(n)

\* toISOString() of a clock value
ISODateTime(at) ==
  ISODate(at.day) \o "T" \o Pad2(at.ms \div 3600000) \o ":"
    \o Pad2((at.ms \div 60000) % 60) \o ":" \o Pad2((at.ms \div 1000) % 60)
    \o "." \o Pad3(at.ms % 1000) \o "Z"

\* past = now - 365 days, future = now + 30 days; the timestamp
\* past + random() * (future - past) is cut to whole milliseconds by new Date
generateDateTime(s, now) ==
  LET x == NextSeed(s)
      span == x * (365 + 30)
      ms == now.ms + MsOfFraction(span % Modulus)
      at == [day |-> now.day - 365 + (span \div Modulus) + (ms \div DayMs),
             ms |-> ms % DayMs]
  IN  [v |-> Str(ISODateTime(at)), s |-> x]

\* the property names that are array indices (canonical numerals below
\* 2^32 - 1), with the numbers they denote
ArrayIndices == ("1" :> 1) @@ ("2" :> 2) @@ ("10" :> 10)

\* entries with array-index keys, in ascending order of the index
RECURSIVE ascending(_)
ascending(entries) ==
  IF entries = << >> THEN << >>
  ELSE LET least == CHOOSE i \in 1..Len(entries) :
                      \A j \in 1..Len(entries) :
                        ArrayIndices[entries[i][1]] <= ArrayIndices[entries[j][1]]
       IN << entries[least] >>
            \o ascending(SubSeq(entries, 1, least - 1)
                           \o SubSeq(entries, least + 1, Len(entries)))

\* the properties of an object that was built by defining entries in turn,
\* as Object.entries and for-in list them: array indices first, ascending,
\* then the other names in the order they were defined
ownProperties(entries) ==
  ascending(SelectSeq(entries, LAMBDA e : e[1] \in DOMAIN ArrayIndices))
    \o SelectSeq(entries, LAMBDA e : e[1] \notin DOMAIN ArrayIndices)

(***************************************************************************)
(* Record generator                                                        *)
(* A schema is a sequence of <<field, type>>; a type is                    *)
(*   [k |-> "tag", tag |-> "string"], [k |-> "object", fields |-> schema]  *)
(*   or [k |-> "array", elem |-> type].                                    *)
(***************************************************************************)
Tag(tag) == [k |-> "tag", tag |-> tag]
ObjectOf(fields) == [k |-> "object", fields |-> fields]
ArrayOf(elem) == [k |-> "array", elem |-> elem]

EmptyObject == << >>

\* template[part]?.[field] as an option: << >> when undefined, <<value>> otherwise
Lookup(template, part, field) ==
  IF Has(template, part) /\ Has(template[part], field)
  THEN << template[part][field] >> ELSE << >>

\* the switch with a default case that takes the string rule whatever the enums
generatePrimitiveAsString(s, tag, constraints, enums, data, variations, now) ==
  IF tag \in {"number", "boolean", "email", "phone", "date", "datetime", "url",
              "text", "enum"}
  THEN CASE tag = "number" -> generateNumber(s, constraints)
         [] tag = "boolean" -> randomBoolean(s)
         [] tag = "email" -> generateEmail(s)
         [] tag = "phone" -> generatePhone(s, constraints)
         [] tag = "date" -> generateDate(s, constraints, now)
         [] tag = "datetime" -> generateDateTime(s, now)
         [] tag = "url" -> generateUrl(s)
         [] tag = "text" -> generateText(s, data, constraints)
         [] OTHER -> generateEnum(s, enums, variations)
  ELSE generateString(s, constraints, data, variations)

\* the switch on a type tag; enums and data are options
generatePrimitive(s, tag, constraints, enums, data, variations, now) ==
  CASE tag = "string" -> generateString(s, constraints, data, variations)
    [] tag = "number" -> generateNumber(s, constraints)
    [] tag = "boolean" -> randomBoolean(s)
    [] tag = "email" -> generateEmail(s)
    [] tag = "phone" -> generatePhone(s, constraints)
    [] tag = "date" -> generateDate(s, constraints, now)
    [] tag = "datetime" -> generateDateTime(s, now)
    [] tag = "url" -> generateUrl(s)
    [] tag = "text" -> generateText(s, data, constraints)
    [] tag = "enum" -> generateEnum(s, enums, variations)
    [] OTHER -> IF enums # << >>
                THEN generateEnum(s, enums, variations)
                ELSE generateString(s, constraints, data, variations)

\* the template seen from inside the object field: the entries registered
\* under the field's name, as a namespace of its own
Scoped(template, field) ==
  [part \in DOMAIN template \ {"schema"} |->
     IF Has(template[part], field) THEN template[part][field] ELSE EmptyObject]
    @@ [schema |-> template.schema]

RECURSIVE generateFieldValue(_, _, _, _, _, _)
RECURSIVE generateFields(_, _, _, _, _, _)
RECURSIVE generateItems(_, _, _, _, _, _, _, _)
RECURSIVE generateFieldsNext(_, _, _, _, _, _)
RECURSIVE generateItemsNext(_, _, _, _, _, _, _, _)

\* generateFieldsNext with the loop ending one field early
generateFieldsNextShort(r, schema, i, record, template, ctx) ==
  generateFields(r.s, schema, i + 1,
                 IF i = Len(schema) THEN record
                 ELSE Append(record, <<schema[i][1], r.v>>),
                 template, ctx)

\* the loop over Object.entries: fields i.. of the schema, appended to record;
\* generateFieldsNext continues after field i got the value r.v
generateFieldsNext(r, schema, i, record, template, ctx) ==
  generateFields(r.s, schema, i + 1, Append(record, <<schema[i][1], r.v>>), template, ctx)

generateFields(s, schema, i, record, template, ctx) ==
  IF i > Len(schema) THEN [v |-> Obj(ownProperties(record)), s |-> s]
  ELSE generateFieldsNext(
         generateFieldValue(s, schema[i][1], schema[i][2], template, ctx.variations, ctx.now),
         schema, i, record, template, ctx)

\* Array.from({length}, ...): the remaining elements of an array field;
\* generateItemsNext continues after an element got the value r.v
generateItemsNext(r, field, elem, left, items, template, variations, now) ==
  generateItems(r.s, field, elem, left - 1, Append(items, r.v), template, variations, now)

generateItems(s, field, elem, left, items, template, variations, now) ==
  IF left <= 0 THEN [v |-> Arr(items), s |-> s]
  ELSE generateItemsNext(generateFieldValue(s, field, elem, template, variations, now),
                         field, elem, left, items, template, variations, now)

generateArray(arrayLength, field, elem, template, variations, now) ==
  generateItems(arrayLength.s, field, elem, arrayLength.v, << >>, template, variations, now)

\* generateFieldValue with nested fields looked up under their parent
generateFieldValueScoped(s, field, type, template, variations, now) ==
  LET found == Lookup(template, "constraints", field)
      constraints == IF found = << >> THEN EmptyObject ELSE found[1]
      enums == Lookup(template, "enums", field)
      data == Lookup(template, "data", field)
  IN  CASE type.k = "object" ->
             generateFields(s, type.fields, 1, << >>, Scoped(template, field),
                            [variations |-> variations, now |-> now])
        [] type.k = "array" ->
             generateArray(randomInt(s, 1, 5), field, type.elem, template, variations, now)
        [] OTHER ->
             generatePrimitive(s, type.tag, constraints, enums, data, variations, now)

generateFieldValue(s, field, type, template, variations, now) ==
  LET found == Lookup(template, "constraints", field)
      constraints == IF found = << >> THEN EmptyObject ELSE found[1]
      enums == Lookup(template, "enums", field)
      data == Lookup(template, "data", field)
  IN  CASE type.k = "object" ->
             generateFields(s, type.fields, 1, << >>, template,
                            [variations |-> variations, now |-> now])
        [] type.k = "array" ->
             generateArray(randomInt(s, 1, 5), field, type.elem, template, variations, now)
        [] OTHER ->
             generatePrimitive(s, type.tag, constraints, enums, data, variations, now)

generateSingleRecord(s, template, variations, now) ==
  generateFields(s, template.schema, 1, << >>, template,
                 [variations |-> variations, now |-> now])

(***************************************************************************)
(* JSON.stringify, the key of the uniqueness check                         *)
(***************************************************************************)
\* the digits of frac / 10^width after the decimal point, trailing zeros dropped
RECURSIVE FractionDigits(_, _)
FractionDigits(frac, width) ==
  IF width = 0 THEN ""
  ELSE IF frac % 10 = 0 THEN FractionDigits(frac \div 10, width - 1)
  ELSE FractionDigits(frac \div 10, width - 1) \o ToString(frac % 10)

RECURSIVE Width(_)
Width(scale) == IF scale <= 1 THEN 0 ELSE 1 + Width(scale \div 10)

\* the text of the number n / scale; -0 prints as 0
NumberText(n, scale) ==
  LET abs == IF n < 0 THEN -n ELSE n
      digits == FractionDigits(abs % scale, Width(scale))
  IN  (IF n < 0 THEN "-" ELSE "") \o ToString(abs \div scale)
        \o (IF digits = "" THEN "" ELSE "." \o digits)

RECURSIVE JSONStringify(_)
RECURSIVE stringifyFields(_, _, _)
RECURSIVE stringifyItems(_, _, _)

\* the properties i.. of an object; a property whose value is undefined is left out
stringifyFields(fields, i, text) ==
  IF i > Len(fields) THEN text
  ELSE IF fields[i][2].t = "undefined" THEN stringifyFields(fields, i + 1, text)
  ELSE stringifyFields(fields, i + 1,
         text \o (IF text = "" THEN "" ELSE ",")
              \o "\"" \o fields[i][1] \o "\":" \o JSONStringify(fields[i][2]))

stringifyItems(items, i, text) ==
  IF i > Len(items) THEN text
  ELSE stringifyItems(items, i + 1,
         text \o (IF i = 1 THEN "" ELSE ",") \o JSONStringify(items[i]))

JSONStringify(val) ==
  CASE val.t = "string" -> "\"" \o val.v \o "\""
    [] val.t = "number" -> NumberText(val.n, val.scale)
    [] val.t = "boolean" -> IF val.b THEN "true" ELSE "false"
    [] val.t = "object" -> "{" \o stringifyFields(val.f, 1, "") \o "}"
    [] val.t = "array" -> "[" \o stringifyItems(val.a, 1, "") \o "]"
    [] OTHER -> "null"

(***************************************************************************)
(* JSON documents.  The text JSON.stringify(data, null, 2) writes is kept   *)
(* as the document it denotes:                                             *)
(*   [j |-> "object", members |-> << <<key, doc>>, ... >>]                  *)
(*   [j |-> "array", items |-> << doc, ... >>]    [j |-> "string", v |-> s] *)
(*   [j |-> "number", n |-> k, scale |-> 10^d]  (k / 10^d in lowest terms,  *)
(*   as its digits are printed)   [j |-> "boolean", b |-> TRUE]             *)
(*   [j |-> "null"]                                                        *)
(***************************************************************************)
Null == [t |-> "null"]

\* n / scale with the trailing zeros of the fraction dropped: 7.0 prints as 7
RECURSIVE Lowest(_, _)
Lowest(n, scale) ==
  IF scale > 1 /\ n % 10 = 0 THEN Lowest(n \div 10, scale \div 10)
  ELSE [n |-> n, scale |-> scale]

RECURSIVE JSONDocument(_)

\* the members of an object, in the order of its properties; a property
\* whose value is undefined is left out
documentMembers(fields) ==
  [i \in 1..Len(SelectSeq(fields, LAMBDA e : e[2].t # "undefined")) |->
     << SelectSeq(fields, LAMBDA e : e[2].t # "undefined")[i][1],
        JSONDocument(SelectSeq(fields, LAMBDA e : e[2].t # "undefined")[i][2]) >>]

documentItems(items) == [i \in 1..Len(items) |-> JSONDocument(items[i])]

\* what JSON.stringify writes for val; NaN, null and an undefined array item
\* are written as null
JSONDocument(val) ==
  CASE val.t = "string" -> [j |-> "string", v |-> val.v]
    [] val.t = "number" ->
         [j |-> "number", n |-> Lowest(val.n, val.scale).n,
          scale |-> Lowest(val.n, val.scale).scale]
    [] val.t = "boolean" -> [j |-> "boolean", b |-> val.b]
    [] val.t = "object" -> [j |-> "object", members |-> documentMembers(val.f)]
    [] val.t = "array" -> [j |-> "array", items |-> documentItems(val.a)]
    [] OTHER -> [j |-> "null"]

RECURSIVE JSONParse(_)

\* the properties defined for the members of an object, in the order of the text
parseMembers(members) ==
  [i \in 1..Len(members) |-> << members[i][1], JSONParse(members[i][2]) >>]

parseItems(docs) == [i \in 1..Len(docs) |-> JSONParse(docs[i])]

\* the value JSON.parse builds from a document
JSONParse(doc) ==
  CASE doc.j = "string" -> Str(doc.v)
    [] doc.j = "number" -> Num(doc.n, doc.scale)
    [] doc.j = "boolean" -> Bool(doc.b)
    [] doc.j = "object" -> Obj(ownProperties(parseMembers(doc.members)))
    [] doc.j = "array" -> Arr(parseItems(doc.items))
    [] OTHER -> Null

(***************************************************************************)
(* Batch generator: generate                                               *)
(***************************************************************************)
maxAttemptsUnique == 100

isDuplicate(data, generatedValues) == JSONStringify(data) \in generatedValues

\* maxAttempts without the retries of unique mode
maxAttemptsOnce(unique) == 1

maxAttempts(unique) == IF unique THEN maxAttemptsUnique ELSE 1

\* one pass through the body of the do-while: a record is generated from
\* state s and attempts is incremented
attempted(data, attempts) == [data |-> data.v, s |-> data.s, attempts |-> attempts + 1]

attempt(s, attempts, template, opts, now) ==
  attempted(generateSingleRecord(s, template, opts.variations, now), attempts)

\* the condition of the do-while without the bound on attempts
againUnbounded(it, opts, generatedValues) ==
  opts.unique /\ isDuplicate(it.data, generatedValues)

\* the condition of the do-while after the pass that ended as it
again(it, opts, generatedValues) ==
  opts.unique /\ isDuplicate(it.data, generatedValues)
    /\ it.attempts < maxAttempts(opts.unique)

\* up to n more passes after the pass that ended as it, for as long as the
\* condition holds.  The passes are taken in order; they are counted off in
\* halves so that the evaluation of a hundred passes stays shallow.
RECURSIVE attemptLoop(_, _, _, _, _, _)
attemptLoop(it, n, template, opts, generatedValues, now) ==
  IF n = 0 \/ ~again(it, opts, generatedValues) THEN it
  ELSE IF n = 1 THEN attempt(it.s, it.attempts, template, opts, now)
  ELSE attemptLoop(attemptLoop(it, n \div 2, template, opts, generatedValues, now),
                   n - (n \div 2), template, opts, generatedValues, now)

\* the do-while of one iteration: the body once, then while the condition holds
doWhile(s, template, opts, generatedValues, now) ==
  attemptLoop(attempt(s, 0, template, opts, now), maxAttempts(opts.unique),
              template, opts, generatedValues, now)

\* pushed with the record of an iteration that warned left out
pushedFresh(it, i, opts, run, warn) ==
  [results |-> IF warn THEN run.results ELSE Append(run.results, it.data),
   generatedValues |-> IF opts.unique
                       THEN run.generatedValues \cup {JSONStringify(it.data)}
                       ELSE run.generatedValues,
   warned |-> IF warn THEN Append(run.warned, i) ELSE run.warned,
   attempts |-> Append(run.attempts, it.attempts)]

\* the call so far after iteration i ended as it: results, generatedValues,
\* warned (the iterations that logged the warning), attempts (per iteration)
pushed(it, i, opts, run, warn) ==
  [results |-> Append(run.results, it.data),
   generatedValues |-> IF opts.unique
                       THEN run.generatedValues \cup {JSONStringify(it.data)}
                       ELSE run.generatedValues,
   warned |-> IF warn THEN Append(run.warned, i) ELSE run.warned,
   attempts |-> Append(run.attempts, it.attempts)]

\* the for loop from iteration i on; generateLoopNext continues after the
\* do-while of iteration i ended as it
RECURSIVE generateLoop(_, _, _, _, _, _)
generateLoopNext(it, i, template, opts, run, now) ==
  IF opts.unique /\ it.attempts >= maxAttempts(opts.unique)
  THEN generateLoop(it.s, i + 1, template, opts, pushed(it, i, opts, run, TRUE), now)
  ELSE generateLoop(it.s, i + 1, template, opts, pushed(it, i, opts, run, FALSE), now)

generateLoop(s, i, template, opts, run, now) ==
  IF i >= opts.count THEN [results |-> run.results, s |-> s, warned |-> run.warned,
                           attempts |-> run.attempts]
  ELSE generateLoopNext(doWhile(s, template, opts, run.generatedValues, now),
                        i, template, opts, run, now)

\* generate whose set of emitted keys is not empty when the loop starts: it
\* holds the key of the record that the state s generates
generateFromStale(s, template, options, now) ==
  generateLoop(s, 0, template,
               [count |-> Default(options, "count", 1),
                variations |-> Default(options, "variations", TRUE),
                unique |-> Default(options, "unique", FALSE)],
               [results |-> << >>,
                generatedValues |->
                  {JSONStringify(generateSingleRecord(
                     s, template, Default(options, "variations", TRUE), now).v)},
                warned |-> << >>, attempts |-> << >>],
               now)

\* generate on a loaded template: the destructured options, then the loop
generateFrom(s, template, options, now) ==
  generateLoop(s, 0, template,
               [count |-> Default(options, "count", 1),
                variations |-> Default(options, "variations", TRUE),
                unique |-> Default(options, "unique", FALSE)],
               [results |-> << >>, generatedValues |-> {}, warned |-> << >>,
                attempts |-> << >>],
               now)

(***************************************************************************)
(* The template store: cypress/data/templates/<name>.json                  *)
(***************************************************************************)
\* the user template of the documentation
UserTemplate ==
  [schema |-> << <<"id", Tag("number")>>,
                 <<"firstName", Tag("string")>>,
                 <<"lastName", Tag("string")>>,
                 <<"email", Tag("email")>>,
                 <<"phone", Tag("phone")>>,
                 <<"dateOfBirth", Tag("date")>>,
                 <<"address", ObjectOf(<< <<"street", Tag("string")>>,
                                          <<"city", Tag("string")>>,
                                          <<"state", Tag("string")>>,
                                          <<"zipCode", Tag("string")>>,
                                          <<"country", Tag("string")>> >>)>>,
                 <<"role", Tag("enum")>>,
                 <<"status", Tag("enum")>> >>,
   constraints |-> [firstName |-> [minLength |-> 2, maxLength |-> 50],
                    dateOfBirth |-> [minAge |-> 18, maxAge |-> 100]],
   enums |-> [role |-> << "admin", "user", "moderator", "guest" >>,
              status |-> << "active", "inactive", "pending", "suspended" >>],
   data |-> [firstName |-> << "John", "Jane", "Michael", "Sarah" >>,
             lastName |-> << "Smith", "Johnson", "Williams", "Brown" >>]]

\* a template with two distinct records
FlagTemplate == [schema |-> << <<"active", Tag("boolean")>> >>]

\* number fields under several bounds
RangeTemplate ==
  [schema |-> << <<"age", Tag("number")>>,
                 <<"price", Tag("number")>>,
                 <<"offset", Tag("number")>>,
                 <<"delta", Tag("number")>>,
                 <<"level", Tag("number")>>,
                 <<"score", Tag("number")>> >>,
   constraints |-> [age |-> [min |-> Rat(18, 1), max |-> Rat(100, 1)],
                    price |-> [min |-> Rat(1, 2), max |-> Rat(20, 1), decimal |-> 1],
                    offset |-> [min |-> Rat(-5, 1), max |-> Rat(0, 1)],
                    delta |-> [min |-> Rat(-10, 1), max |-> Rat(-3, 1)],
                    level |-> [min |-> Rat(0, 1), max |-> Rat(10, 1)]]]

\* nested objects, arrays, pools, an unrecognized tag
CatalogTemplate ==
  [schema |-> << <<"name", Tag("string")>>,
                 <<"kind", Tag("category")>>,
                 <<"tags", ArrayOf(Tag("string"))>>,
                 <<"size", ObjectOf(<< <<"width", Tag("number")>>,
                                       <<"unit", Tag("enum")>> >>)>>,
                 <<"items", ArrayOf(ObjectOf(<< <<"sku", Tag("string")>>,
                                                <<"inStock", Tag("boolean")>> >>))>>,
                 <<"note", Tag("text")>>,
                 <<"site", Tag("url")>>,
                 <<"createdAt", Tag("datetime")>> >>,
   constraints |-> [sku |-> [minLength |-> 1, maxLength |-> 3],
                    width |-> [min |-> Rat(1, 1), max |-> Rat(9, 1)]],
   enums |-> [kind |-> << "tool", "toy" >>],
   data |-> [name |-> << "Lamp", "Chair" >>,
             tags |-> << "new", "sale", "eco" >>,
             note |-> << "Fragile.", "Keep dry." >>]]

\* fields named by question numbers, declared out of numeric order, at the
\* top and in a nested object; a string that may be empty; tags that the
\* switch does not know, with and without a pool, and with an empty enum list
SurveyTemplate ==
  [schema |-> << <<"respondent", Tag("string")>>,
                 <<"10", Tag("boolean")>>,
                 <<"2", Tag("number")>>,
                 <<"code", Tag("string")>>,
                 <<"answers", ObjectOf(<< <<"free", Tag("boolean")>>,
                                          <<"1", Tag("number")>>,
                                          <<"code", Tag("string")>> >>)>>,
                 <<"ref", Tag("uuid")>>,
                 <<"origin", Tag("place")>>,
                 <<"grade", Tag("level")>>,
                 <<"mood", Tag("scale")>> >>,
   constraints |-> [code |-> [minLength |-> 0, maxLength |-> 2]],
   enums |-> [grade |-> << >>, mood |-> << "low", "high" >>],
   data |-> [respondent |-> << "Ada", "Lin" >>, origin |-> << "web", "mail" >>]]

\* one number of 0..16: seventeen different records
SeatTemplate ==
  [schema |-> << <<"seat", Tag("number")>> >>,
   constraints |-> [seat |-> [max |-> Rat(17, 1)]]]

Store == [user |-> UserTemplate, flag |-> FlagTemplate,
          range |-> RangeTemplate, catalog |-> CatalogTemplate,
          survey |-> SurveyTemplate, seat |-> SeatTemplate]

(***************************************************************************)
(* The script's generator: SimpleDataGenerator                             *)
(* (scripts/generate-test-data.js).  It has the PRNG of the class above.   *)
(* A record is computed from the successive PRNG states X: X[1] is the     *)
(* state before the record and X[k + 1] / 233280 is what the k-th call of  *)
(* random() returns.  Sums and products of prices are taken over exact     *)
(* decimals.                                                               *)
(***************************************************************************)
\* acc extended by the states that further calls of random() reach, up to
\* length states in all
RECURSIVE statesFrom(_, _)
statesFrom(acc, length) ==
  IF Len(acc) >= length THEN acc
  ELSE statesFrom(Append(acc, NextSeed(acc[Len(acc)])), length)

\* the state s and the states reached by the next n calls of random()
states(s, n) == statesFrom(<< s >>, n + 1)

\* floor((x * n + c) / Modulus) for |n| below 10^6, without a product above 2^31
FloorMulAddWide(x, n, c) ==
  1000 * ((x * (n \div 1000)) \div Modulus)
    + ((1000 * ((x * (n \div 1000)) % Modulus) + x * (n % 1000) + c) \div Modulus)

\* randomInt over a range of up to 10^6 values
randomIntWide(s, min, max) ==
  [v |-> FloorMulAddWide(NextSeed(s), max - min + 1, 0) + min, s |-> NextSeed(s)]

\* (random() * n).toFixed(d) in units of 10^-d, where units is n * 10^d:
\* the nearest whole number of units, the larger magnitude on a tie
RoundMul(x, units) ==
  IF x >= 0 THEN FloorMulAddWide(x, units, Modulus \div 2)
  ELSE -FloorMulAddWide(-x, units, Modulus \div 2)

\* array[Math.floor(random() * array.length)] where random() returned x / Modulus
ChoiceAt(x, array) ==
  IF FloorMul(x, Len(array)) >= 0 /\ FloorMul(x, Len(array)) < Len(array)
  THEN Str(array[FloorMul(x, Len(array)) + 1])
  ELSE Undefined

\* a choice among arrays of strings
ArrayChoiceAt(x, arrays) ==
  IF FloorMul(x, Len(arrays)) >= 0 /\ FloorMul(x, Len(arrays)) < Len(arrays)
  THEN Arr([i \in 1..Len(arrays[FloorMul(x, Len(arrays)) + 1]) |->
              Str(arrays[FloorMul(x, Len(arrays)) + 1][i])])
  ELSE Undefined

\* what a record generator yields when it throws
Thrown(name) == [t |-> "throw", name |-> name]

UpperDigits ==
  << "A","B","C","D","E","F","G","H","I","J","K","L","M",
     "N","O","P","Q","R","S","T","U","V","W","X","Y","Z",
     "0","1","2","3","4","5","6","7","8","9" >>

FirstNames == << "John", "Jane", "Michael", "Sarah", "David", "Emily", "Robert", "Jessica" >>
LastNames == << "Smith", "Johnson", "Williams", "Brown", "Jones", "Garcia", "Miller", "Davis" >>
\* firstName.toLowerCase(), lastName.toLowerCase()
LowerFirstNames ==
  << "john", "jane", "michael", "sarah", "david", "emily", "robert", "jessica" >>
LowerLastNames ==
  << "smith", "johnson", "williams", "brown", "jones", "garcia", "miller", "davis" >>
Cities == << "New York", "Los Angeles", "Chicago", "Houston", "Phoenix", "Philadelphia" >>
States == << "California", "Texas", "Florida", "New York", "Pennsylvania", "Illinois" >>
Countries == << "United States", "Canada", "United Kingdom", "Australia", "Germany" >>
Streets == << "Main", "Oak", "Pine", "Elm", "Cedar" >>
Roles == << "admin", "user", "moderator", "guest" >>
UserStatuses == << "active", "inactive", "pending", "suspended" >>
Themes == << "light", "dark", "auto" >>
Languages == << "en", "es", "fr", "de", "it" >>
Bio ==
  "Passionate about technology and innovation. Love exploring new ideas and creating meaningful solutions."

\* `${randomInt(1, 9999)} ${randomChoice([...])} St`: the draws after X[k]
Street(X, k) ==
  Str(ToString(randomIntWide(X[k], 1, 9999).v) \o " "
        \o Interpolate(ChoiceAt(X[k + 2], Streets)) \o " St")

\* generateAddress, and the address of a user: the 10 draws after X[k]
AddressAt(X, k) ==
  Obj(<< <<"street", Street(X, k)>>,
         <<"city", ChoiceAt(X[k + 3], Cities)>>,
         <<"state", ChoiceAt(X[k + 4], States)>>,
         <<"zipCode", Str(randomString(X[k + 4], 5, Digits).v)>>,
         <<"country", ChoiceAt(X[k + 10], Countries)>> >>)

generateAddress(s) == [v |-> AddressAt(states(s, 10), 1), s |-> states(s, 10)[11]]

\* generateDate of the script: a day from January 1st fifty years back to
\* December 31st eighteen years back
simpleGenerateDate(s, now) ==
  [v |-> Str(ISODate(DaysFromCivil(getFullYear(now) - 50, 1, 1)
               + FloorMulBig(NextSeed(s),
                             DaysFromCivil(getFullYear(now) - 18, 12, 31)
                               - DaysFromCivil(getFullYear(now) - 50, 1, 1)))),
   s |-> NextSeed(s)]

\* generateFutureDate: the date 1 to 30 days from now
generateFutureDate(s, now) ==
  [v |-> Str(ISODate(now.day + randomInt(s, 1, 30).v)), s |-> NextSeed(s)]

\* the user built from the names chosen (positions f and l) and the draws
userRecord(X, f, l, now) ==
  Obj(<< <<"id", Num(randomIntWide(X[4], 1, 999999).v, 1)>>,
         <<"firstName", Str(FirstNames[f])>>,
         <<"lastName", Str(LastNames[l])>>,
         <<"email", Str(LowerFirstNames[f] \o "." \o LowerLastNames[l]
                          \o ToString(randomInt(X[3], 1, 999).v) \o "@example.com")>>,
         <<"phone", Str("(" \o ToString(randomInt(X[5], 200, 999).v) \o ") "
                          \o ToString(randomInt(X[6], 200, 999).v) \o "-"
                          \o ToString(randomInt(X[7], 1000, 9999).v))>>,
         <<"dateOfBirth", simpleGenerateDate(X[8], now).v>>,
         <<"address", AddressAt(X, 9)>>,
         <<"profile",
           Obj(<< <<"bio", Str(Bio)>>,
                  <<"avatar", Str("https://example.com/avatars/"
                                    \o randomString(X[19], 8, Letters).v \o ".jpg")>>,
                  <<"website", Str("https://" \o randomString(X[27], 10, Letters).v
                                     \o ".com")>>,
                  <<"socialMedia",
                    Obj(<< <<"twitter", Str("@" \o LowerFirstNames[f] \o LowerLastNames[l])>>,
                           <<"linkedin", Str("linkedin.com/in/" \o LowerFirstNames[f]
                                               \o "-" \o LowerLastNames[l])>>,
                           <<"github", Str("github.com/" \o LowerFirstNames[f]
                                             \o LowerLastNames[l])>> >>)>> >>)>>,
         <<"preferences",
           Obj(<< <<"theme", ChoiceAt(X[38], Themes)>>,
                  <<"language", ChoiceAt(X[39], Languages)>>,
                  <<"notifications", Bool(2 * X[40] < Modulus)>>,
                  <<"newsletter", Bool(10 * X[41] < 7 * Modulus)>> >>)>>,
         <<"role", ChoiceAt(X[42], Roles)>>,
         <<"status", ChoiceAt(X[43], UserStatuses)>>,
         <<"createdAt", generateDateTime(X[43], now).v>>,
         <<"updatedAt", generateDateTime(X[44], now).v>> >>)

\* generateUser on the draws X; toLowerCase of an undefined name throws
userFrom(X, now) ==
  IF ChoiceAt(X[2], FirstNames).t = "undefined" \/ ChoiceAt(X[3], LastNames).t = "undefined"
  THEN [v |-> Thrown("TypeError"), s |-> X[3]]
  ELSE [v |-> userRecord(X, FloorMul(X[2], Len(FirstNames)) + 1,
                         FloorMul(X[3], Len(LastNames)) + 1, now),
        s |-> X[45]]

generateUser(s, now) == userFrom(states(s, 44), now)

ProductNames ==
  << "Wireless Bluetooth Headphones", "Smart Fitness Tracker", "Organic Cotton T-Shirt",
     "Professional Camera Lens", "Ergonomic Office Chair", "Stainless Steel Water Bottle",
     "LED Desk Lamp", "Wireless Charging Pad", "Bluetooth Speaker",
     "Gaming Mechanical Keyboard" >>
\* name.toLowerCase()
LowerProductNames ==
  << "wireless bluetooth headphones", "smart fitness tracker", "organic cotton t-shirt",
     "professional camera lens", "ergonomic office chair", "stainless steel water bottle",
     "led desk lamp", "wireless charging pad", "bluetooth speaker",
     "gaming mechanical keyboard" >>
Brands == << "Apple", "Samsung", "Sony", "Bose", "JBL", "Logitech", "Razer", "Corsair" >>
\* brand.toUpperCase()
UpperBrands == << "APPLE", "SAMSUNG", "SONY", "BOSE", "JBL", "LOGITECH", "RAZER", "CORSAIR" >>
Categories == << "Electronics", "Clothing", "Books", "Home & Garden", "Sports", "Beauty" >>
Availabilities == << "in-stock", "out-of-stock", "pre-order", "discontinued" >>
Currencies == << "USD", "EUR", "GBP", "CAD", "AUD" >>
ProductTags ==
  << << "wireless", "bluetooth", "portable" >>,
     << "smart", "fitness", "tracking" >>,
     << "organic", "cotton", "sustainable" >>,
     << "professional", "high-quality", "durable" >> >>
Features ==
  << << "Wireless connectivity", "Bluetooth 5.0", "Fast charging" >>,
     << "Water resistant", "Noise cancellation", "Voice control" >>,
     << "App integration", "Customizable settings", "Long battery life" >> >>
ShippingTimes == << "1-2 days", "3-5 days", "1 week", "2 weeks" >>

\* shipping of a product: free, cost, time.  The cost takes a second draw
\* only when the first is below 0.5; paid is that second draw's count (0 or 1)
productShipping(X, paid) ==
  Obj(<< <<"free", Bool(2 * X[45] < Modulus)>>,
         <<"cost", IF paid = 1 THEN Num(RoundMul(X[47], 2000), 100) ELSE Num(0, 1)>>,
         <<"time", ChoiceAt(X[47 + paid], ShippingTimes)>> >>)

\* the product built from the name and brand chosen (positions n and b)
productRecord(X, n, b, paid, now) ==
  Obj(<< <<"id", Num(randomIntWide(X[5], 1, 999999).v, 1)>>,
         <<"name", Str(ProductNames[n])>>,
         <<"description", Str("High-quality " \o LowerProductNames[n]
             \o " designed for durability and performance. Perfect for everyday use.")>>,
         <<"price", Num(1000 + RoundMul(X[4], 100000), 100)>>,
         <<"currency", ChoiceAt(X[7], Currencies)>>,
         <<"category", ChoiceAt(X[8], Categories)>>,
         <<"brand", Str(Brands[b])>>,
         <<"sku", Str(UpperBrands[b] \o "-" \o randomString(X[8], 6, UpperDigits).v)>>,
         <<"inStock", Bool(10 * X[15] < 8 * Modulus)>>,
         <<"quantity", Num(randomInt(X[15], 0, 100).v, 1)>>,
         <<"weight", Num(10 + RoundMul(X[17], 1000), 100)>>,
         <<"dimensions",
           Obj(<< <<"length", Num(randomInt(X[17], 5, 50).v, 1)>>,
                  <<"width", Num(randomInt(X[18], 5, 50).v, 1)>>,
                  <<"height", Num(randomInt(X[19], 5, 50).v, 1)>>,
                  <<"unit", Str("inches")>> >>)>>,
         <<"images",
           Arr(<< Str("https://example.com/images/"
                        \o randomString(X[20], 8, Letters).v \o ".jpg"),
                  Str("https://example.com/images/"
                        \o randomString(X[28], 8, Letters).v \o ".jpg") >>)>>,
         <<"tags", ArrayChoiceAt(X[37], ProductTags)>>,
         <<"rating", Num(10 + RoundMul(X[5], 40), 10)>>,
         <<"reviews", Num(randomInt(X[37], 0, 1000).v, 1)>>,
         <<"features", ArrayChoiceAt(X[39], Features)>>,
         <<"specifications",
           Obj(<< <<"Screen Size", Str(ToString(randomInt(X[39], 5, 15).v) \o " inches")>>,
                  <<"Resolution", Str(ToString(randomInt(X[40], 720, 4).v) \o "K")>>,
                  <<"Battery Life", Str(ToString(randomInt(X[41], 8, 24).v) \o " hours")>>,
                  <<"Weight", Str(ToString(randomInt(X[42], 100, 500).v) \o "g")>> >>)>>,
         <<"availability", ChoiceAt(X[44], Availabilities)>>,
         <<"shipping", productShipping(X, paid)>>,
         <<"createdAt", generateDateTime(X[47 + paid], now).v>>,
         <<"updatedAt", generateDateTime(X[48 + paid], now).v>> >>)

\* generateProduct on the draws X; toLowerCase and toUpperCase of an
\* undefined name or brand throw
productFrom(X, now) ==
  IF ChoiceAt(X[2], ProductNames).t = "undefined" \/ ChoiceAt(X[3], Brands).t = "undefined"
  THEN [v |-> Thrown("TypeError"), s |-> X[6]]
  ELSE [v |-> productRecord(X, FloorMul(X[2], Len(ProductNames)) + 1,
                            FloorMul(X[3], Len(Brands)) + 1,
                            IF 2 * X[46] < Modulus THEN 1 ELSE 0, now),
        s |-> X[49 + (IF 2 * X[46] < Modulus THEN 1 ELSE 0)]]

generateProduct(s, now) == productFrom(states(s, 49), now)

OrderStatuses ==
  << "pending", "confirmed", "processing", "shipped", "delivered", "cancelled", "refunded" >>
PaymentMethods ==
  << "credit_card", "debit_card", "paypal", "apple_pay", "google_pay", "bank_transfer",
     "cash" >>
PaymentStatuses ==
  << "pending", "paid", "failed", "refunded", "partially_refunded", "cancelled" >>
ShippingMethods == << "standard", "express", "overnight", "pickup", "international", "free" >>
CouponCodes == << "SAVE10", "WELCOME20", "SUMMER15" >>
Notes ==
  << "Please leave package at front door if no answer", "Deliver to back entrance",
     "Call before delivery", "Fragile - handle with care" >>

\* the most draws one order takes
MaxOrderDraws == 79

\* one item, from the three draws after X[k]; cents is price * quantity in cents
orderItem(X, k) ==
  [v |-> Obj(<< <<"productId", Num(randomIntWide(X[k], 1, 999999).v, 1)>>,
                <<"quantity", Num(randomInt(X[k + 1], 1, 3).v, 1)>>,
                <<"price", Num(1000 + RoundMul(X[k + 3], 10000), 100)>> >>),
   cents |-> (1000 + RoundMul(X[k + 3], 10000)) * randomInt(X[k + 1], 1, 3).v]

\* Array.from({length: itemCount}, ...): the items left to make, from X[k] on
RECURSIVE orderItemsFrom(_, _, _, _, _)
orderItemsFrom(X, k, left, items, itemsTotal) ==
  IF left <= 0 THEN [items |-> items, itemsTotal |-> itemsTotal, k |-> k]
  ELSE orderItemsFrom(X, k + 3, left - 1, Append(items, orderItem(X, k).v),
                      itemsTotal + orderItem(X, k).cents)

\* random() < p ? (random() * 20).toFixed(2) : 0, from X[k] on, where below
\* says whether the first draw is under p: the amount in cents and the next k
optionalAmount(X, k, below) ==
  IF below THEN [cents |-> RoundMul(X[k + 2], 2000), k |-> k + 2]
  ELSE [cents |-> 0, k |-> k + 1]

\* random() < p ? value : null, where value takes draws more draws
optional(below, value, k, draws) ==
  IF below THEN [v |-> value, k |-> k + 1 + draws] ELSE [v |-> Null, k |-> k + 1]

Cents(c) == Num(c, 100)

\* the last fields of an order, from actualDelivery on
orderEnd(X, fields, actual, now) ==
  [v |-> Obj(fields \o << <<"actualDelivery", actual.v>>,
                          <<"createdAt", generateDateTime(X[actual.k], now).v>>,
                          <<"updatedAt", generateDateTime(X[actual.k + 1], now).v>> >>),
   s |-> X[actual.k + 2]]

orderDelivery(X, fields, tracking, now) ==
  orderEnd(X,
           fields \o << <<"trackingNumber", tracking.v>>,
                        <<"estimatedDelivery", generateFutureDate(X[tracking.k], now).v>> >>,
           optional(10 * X[tracking.k + 2] < 8 * Modulus,
                    generateFutureDate(X[tracking.k + 2], now).v, tracking.k + 1, 1),
           now)

orderTracking(X, fields, notes, now) ==
  orderDelivery(X, fields \o << <<"notes", notes.v>> >>,
                optional(10 * X[notes.k + 1] < 7 * Modulus,
                         Str("1Z" \o randomString(X[notes.k + 1], 16, UpperDigits).v),
                         notes.k, 16),
                now)

orderNotes(X, fields, coupon, now) ==
  orderTracking(X, fields \o << <<"couponCode", coupon.v>> >>,
                optional(10 * X[coupon.k + 1] < 3 * Modulus,
                         ChoiceAt(X[coupon.k + 2], Notes), coupon.k, 1),
                now)

\* the fields from id to discount; k is the state before the id's draws
orderHead(X, k, items, itemsTotal, shippingCost, discount) ==
  << <<"id", Str("ORD-" \o randomString(X[k], 8, UpperDigits).v)>>,
     <<"customerId", Num(randomIntWide(X[k + 8], 1, 999999).v, 1)>>,
     <<"items", Arr(items)>>,
     <<"total", Cents(itemsTotal + shippingCost + RoundDiv(itemsTotal * 8, 100) - discount)>>,
     <<"currency", Str("USD")>>,
     <<"status", ChoiceAt(X[k + 10], OrderStatuses)>>,
     <<"paymentMethod", ChoiceAt(X[k + 11], PaymentMethods)>>,
     <<"paymentStatus", ChoiceAt(X[k + 12], PaymentStatuses)>>,
     <<"shippingAddress", AddressAt(X, k + 12)>>,
     <<"billingAddress", AddressAt(X, k + 22)>>,
     <<"shippingMethod", ChoiceAt(X[k + 33], ShippingMethods)>>,
     <<"shippingCost", Cents(shippingCost)>>,
     <<"tax", Cents(RoundDiv(itemsTotal * 8, 100))>>,
     <<"discount", Cents(discount)>> >>

orderCoupon(X, k, items, itemsTotal, shippingCost, discount, now) ==
  orderNotes(X, orderHead(X, k, items, itemsTotal, shippingCost, discount),
             optional(10 * X[k + 34] < 2 * Modulus, ChoiceAt(X[k + 35], CouponCodes),
                      k + 33, 1),
             now)

orderDiscount(X, made, shipping, now) ==
  orderCoupon(X,
              optionalAmount(X, shipping.k, 10 * X[shipping.k + 1] < 3 * Modulus).k,
              made.items, made.itemsTotal, shipping.cents,
              optionalAmount(X, shipping.k, 10 * X[shipping.k + 1] < 3 * Modulus).cents,
              now)

orderShipping(X, made, now) ==
  orderDiscount(X, made, optionalAmount(X, made.k, 2 * X[made.k + 1] < Modulus), now)

\* generateOrder on the draws X
orderFrom(X, now) ==
  orderShipping(X, orderItemsFrom(X, 2, randomInt(X[1], 1, 5).v, << >>, 0), now)

generateOrder(s, now) == orderFrom(states(s, MaxOrderDraws), now)

(***************************************************************************)
(* State                                                                   *)
(***************************************************************************)
VARIABLES
  gen,            \* gen[i]: the generator object in heap slot i
  dataGenerator,  \* the commands' module-level generator: 0 (unset) or its slot
  hist,           \* hist[i]: the generate calls made on slot i, with their outcomes
  now,            \* the system clock
  templateFiles,  \* cypress/data/templates: template name -> the template in its file
  fixtures,       \* cypress/fixtures: file name -> the JSON document in the file
  loaded,         \* what the loadGeneratedData commands yielded, in order
  cli,            \* the run of scripts/generate-test-data.js
  currentTestTags, \* the tags module's store of the tags of the current test
  test            \* the test that the runner is running, and how far it is

disk == << templateFiles, fixtures >>
tagging == << currentTestTags, test >>
shell == << loaded, cli, tagging >>
vars == << gen, dataGenerator, hist, now, templateFiles, fixtures, loaded, cli,
           currentTestTags, test >>

MaxCalls == 1
MaxSeqCalls == 2
MaxTicks == 1
MaxExports == 2
MaxReuseCalls == 2
MaxCacheCalls == 2
MaxLoads == 1
MaxTests == 2
MaxClockCalls == 1
MaxRetryCalls == 2

Inst == {1, 2}
\* seeds given to the constructor: by a single caller, and by the two callers
\* that are compared with each other
SeedArgs == {49044, -6}
PairSeedArgs == {0, 49044}
\* values of Math.random() * 1000000, taken as whole numbers
Entropy == {271828, 314159}
TemplateNames == {"user", "flag", "range", "catalog", "survey", "nonexistent"}
OptionSet ==
  { [variations |-> FALSE],
    [count |-> 5, unique |-> TRUE],
    [count |-> 5, seed |-> 12345],
    [count |-> 3, unique |-> TRUE, variations |-> TRUE, seed |-> 12345] }
\* command lines: those of the documentation and of the script's usage
\* notes, and ones with an unknown template, a seed, a negative seed, or a
\* count that is not positive
CommandLines ==
  { << "user", "--count", "50", "--unique", "--output", "my-users.json" >>,
    << "product", "--count", "100", "--variations", "--seed", "12345" >>,
    << "user", "--count", "10", "--output", "users.json" >>,
    << "product", "--count", "5", "--unique" >>,
    << "order", "--count", "3", "--variations" >>,
    << "order", "--seed", "12345", "--count", "0" >>,
    << "user", "--seed", "-6" >>,
    << "order", "--count", "2", "--seed", "-7", "--unique" >>,
    << "bogus" >>,
    << "bogus", "--count", "3", "--output", "out.json" >>,
    << "bogus", "--count", "-1" >> }

\* a generator that is called again and a second one constructed with the
\* same seed: the seeds, and templates without clock-dependent fields
ReuseSeeds == {0, 49044}
ReuseTemplateNames == {"flag", "range"}
ReuseOptions ==
  { [count |-> 1], [count |-> 2], [count |-> 3], [count |-> 2, unique |-> TRUE] }

\* the template files that change while a generator is in use, what they
\* are rewritten with, and what the generator is asked for meanwhile
CacheTemplateNames == {"flag", "range"}
CacheTemplates == {FlagTemplate, RangeTemplate}
CacheOptions == {[count |-> 1], [count |-> 2, unique |-> TRUE]}

\* batches that use up the seventeen records of the seat template: seeds
\* and options
RetrySeeds == {9197, 12789, 26986, 3511, 48, 1}
RetryOptions ==
  { [count |-> 17, unique |-> TRUE], [count |-> 16, unique |-> TRUE],
    [count |-> 18, unique |-> TRUE], [count |-> 17] }

\* two generators with the same seed that are called on different days:
\* seeds, templates with a date or a datetime field, options
ClockSeeds == {49044, 777}
ClockTemplateNames == {"user", "catalog"}
ClockOptions == {[count |-> 1], [count |-> 2, variations |-> FALSE]}

\* what the exporting caller asks for
FileTemplateNames == {"user", "range", "nonexistent"}
FileNames == {"test-users.json", "test-products.json"}
FileOptions == {[count |-> 2]}
SeededOptions == {options \in OptionSet : Has(options, "seed")}

\* 2026-12-31T23:59:59.500Z
Clock0 == [day |-> DaysFromCivil(2026, 12, 31), ms |-> DayMs - 500]

\* a Map without entries
EmptyMap == << >>

Unmade == [made |-> FALSE, seedArg |-> << >>, currentSeed |-> 0, templates |-> EmptyMap]

\* the script has not been started
CliIdle == [pc |-> "idle"]

\* no test has run yet
NoTest == [pc |-> "idle", n |-> 0]

Init ==
  /\ gen = [i \in Inst |-> Unmade]
  /\ dataGenerator = 0
  /\ hist = [i \in Inst |-> << >>]
  /\ now = Clock0
  /\ templateFiles = Store
  /\ fixtures = EmptyMap
  /\ loaded = << >>
  /\ cli = CliIdle
  /\ currentTestTags = << >>
  /\ test = NoTest

(***************************************************************************)
(* Operations                                                              *)
(***************************************************************************)
\* new JSONDataGenerator(seed): seedArg is << >> or <<seed>>; entropy is the
\* value Math.random() * 1000000 would give
Constructed(seedArg, entropy) ==
  [made |-> TRUE, seedArg |-> seedArg,
   currentSeed |-> IF seedArg # << >> /\ seedArg[1] # 0 THEN seedArg[1] ELSE entropy,
   templates |-> EmptyMap]

\* JSON.parse of a schema written with its fields in the order declared:
\* every object of the text becomes an object with its own properties
RECURSIVE parseType(_)
parseType(type) ==
  CASE type.k = "object" ->
         ObjectOf(ownProperties([i \in 1..Len(type.fields) |->
                    << type.fields[i][1], parseType(type.fields[i][2]) >>]))
    [] type.k = "array" -> ArrayOf(parseType(type.elem))
    [] OTHER -> type

\* JSON.parse(templateContent)
parseTemplate(templateContent) ==
  [templateContent EXCEPT !.schema = parseType(ObjectOf(@)).fields]

\* loadTemplate: the template read from the files as they are now (read is
\* TRUE: the file system was asked), or the error thrown
loadTemplate(files, templateName) ==
  IF templateName \in DOMAIN files
  THEN [ok |-> TRUE, template |-> parseTemplate(files[templateName]), read |-> TRUE]
  ELSE [ok |-> FALSE, read |-> TRUE,
        error |-> [message |-> "Failed to load template", templateName |-> templateName,
                   cause |-> "ENOENT"]]

\* what the template file of templateName holds: << >> when there is no file
Stored(files, templateName) ==
  IF templateName \in DOMAIN files THEN << files[templateName] >> ELSE << >>

\* the template looked up without the Map: the file is read at every call
getTemplateFresh(g, files, templateName) == loadTemplate(files, templateName)

\* this.templates.get(templateName) || this.loadTemplate(templateName)
getTemplate(g, files, templateName) ==
  IF templateName \in DOMAIN g.templates
  THEN [ok |-> TRUE, template |-> g.templates[templateName], read |-> FALSE]
  ELSE loadTemplate(files, templateName)

\* what generate returns after its loop ended as run, on the template found;
\* a template that was read is in the Map from then on
generated(g, call, found, run) ==
  [gen |-> [g EXCEPT !.currentSeed = run.s,
                     !.templates = IF found.read
                                   THEN (call.templateName :> found.template) @@ @
                                   ELSE @],
   out |-> [kind |-> "ok", call |-> call, template |-> found.template,
            read |-> found.read, results |-> run.results,
            warned |-> run.warned, attempts |-> run.attempts]]

\* failed with the error swallowed: an empty sequence is returned
failedEmpty(g, call, found) ==
  [gen |-> g,
   out |-> [kind |-> "ok", call |-> call, read |-> found.read, results |-> << >>,
            warned |-> << >>, attempts |-> << >>]]

\* failed after a draw was taken from the PRNG
failedAfterDraw(g, call, found) ==
  [gen |-> [g EXCEPT !.currentSeed = NextSeed(@)],
   out |-> [kind |-> "error", call |-> call, read |-> found.read, error |-> found.error]]

\* what generate does when loadTemplate threw
failed(g, call, found) ==
  [gen |-> g,
   out |-> [kind |-> "error", call |-> call, read |-> found.read, error |-> found.error]]

\* generate after the template was looked up
generateWith(g, call, found) ==
  IF ~found.ok THEN failed(g, call, found)
  ELSE generated(g, call, found,
                 generateFrom(g.currentSeed, found.template, call.options, call.clock))

\* generate(templateName, options) on generator g at time clock, with the
\* template files as they are: the generator afterwards and the outcome of
\* the call (what it returned or threw)
generate(g, files, templateName, options, clock) ==
  generateWith(g,
               [templateName |-> templateName, options |-> options,
                seedBefore |-> g.currentSeed, clock |-> clock,
                stored |-> Stored(files, templateName)],
               getTemplate(g, files, templateName))

Construct(i, seedArg, entropy) ==
  /\ ~gen[i].made
  /\ gen' = [gen EXCEPT ![i] = Constructed(seedArg, entropy)]
  /\ UNCHANGED << dataGenerator, hist, now, disk, shell >>

\* the call on slot i ended as r: the generator is updated, the outcome recorded
Called(i, r) ==
  /\ gen' = [gen EXCEPT ![i] = r.gen]
  /\ hist' = [hist EXCEPT ![i] = Append(@, r.out)]

\* a direct call on a caller-owned generator that has had fewer than limit calls
Generate(i, limit, templateName, options) ==
  /\ gen[i].made
  /\ i # dataGenerator
  /\ Len(hist[i]) < limit
  /\ Called(i, generate(gen[i], templateFiles, templateName, options, now))
  /\ UNCHANGED << dataGenerator, now, disk, shell >>

\* getDataGenerator(): the module-level generator, made on first use with no seed
getDataGenerator(i, entropy) ==
  IF dataGenerator = 0 THEN Constructed(<< >>, entropy) ELSE gen[i]

\* a command: generate on the module-level generator, which lives in slot i
Command(i, limit, entropy, templateName, options) ==
  /\ IF dataGenerator = 0 THEN ~gen[i].made ELSE i = dataGenerator
  /\ Len(hist[i]) < limit
  /\ Called(i, generate(getDataGenerator(i, entropy), templateFiles, templateName,
                         options, now))
  /\ dataGenerator' = i
  /\ UNCHANGED << now, disk, shell >>

GenerateData(i, limit, entropy, templateName, options) ==
  Command(i, limit, entropy, templateName, options)

GenerateUser(i, limit, entropy, options) == Command(i, limit, entropy, "user", options)

\* exportToFile that swallows the I/O error
exportToFileQuiet(files, data, filename, writable) ==
  IF writable
  THEN [ok |-> TRUE, files |-> (filename :> JSONDocument(Arr(data))) @@ files]
  ELSE [ok |-> TRUE, files |-> files]

\* exportToFile(data, filename) on the fixture files as they are; writable is
\* whether fs.writeFileSync succeeds.  The files afterwards, or the error thrown
exportToFile(files, data, filename, writable) ==
  IF writable
  THEN [ok |-> TRUE, files |-> (filename :> JSONDocument(Arr(data))) @@ files]
  ELSE [ok |-> FALSE, files |-> files,
        error |-> [message |-> "Failed to export data", filePath |-> filename,
                   cause |-> "EACCES"]]

\* generateAndExport after generate returned r.out.results and exportToFile
\* ended as w
exported(r, filename, w) ==
  IF w.ok
  THEN [gen |-> r.gen, files |-> w.files, out |-> [filename |-> filename] @@ r.out]
  ELSE [gen |-> r.gen, files |-> w.files,
        out |-> [kind |-> "error", call |-> r.out.call, read |-> r.out.read,
                 filename |-> filename, error |-> w.error]]

\* generateAndExport after generate ended as r
exportGenerated(r, files, filename, writable) ==
  IF r.out.kind = "error"
  THEN [gen |-> r.gen, files |-> files, out |-> [filename |-> filename] @@ r.out]
  ELSE exported(r, filename, exportToFile(files, r.out.results, filename, writable))

\* generateAndExport(templateName, filename, options)
generateAndExport(g, templates, files, templateName, filename, options, clock, writable) ==
  exportGenerated(generate(g, templates, templateName, options, clock),
                  files, filename, writable)

\* the call on slot i ended as r, which also says what the fixture files hold
Exported(i, r) ==
  /\ Called(i, r)
  /\ fixtures' = r.files

GenerateAndExport(i, limit, templateName, filename, options, writable) ==
  /\ gen[i].made
  /\ i # dataGenerator
  /\ Len(hist[i]) < limit
  /\ Exported(i, generateAndExport(gen[i], templateFiles, fixtures, templateName,
                                    filename, options, now, writable))
  /\ UNCHANGED << dataGenerator, now, templateFiles, shell >>

\* cy.fixture(filename): the parsed content of the file, or the failure
fixture(files, filename) ==
  IF filename \in DOMAIN files
  THEN [kind |-> "ok", filename |-> filename, data |-> JSONParse(files[filename])]
  ELSE [kind |-> "error", filename |-> filename,
        error |-> [message |-> "A fixture file could not be found"]]

\* the loadGeneratedData command
LoadGeneratedData(limit, filename) ==
  /\ Len(loaded) < limit
  /\ loaded' = Append(loaded, fixture(fixtures, filename))
  /\ UNCHANGED << gen, dataGenerator, hist, now, disk, cli, tagging >>

(***************************************************************************)
(* The script: scripts/generate-test-data.js                               *)
(* A command line is the sequence process.argv.slice(2); position 1 here   *)
(* is args[0] there.  The run is in cli: pc is "idle" before the script    *)
(* starts, "loop" in the generation loop, "exited" afterwards.             *)
(***************************************************************************)
\* args[i], undefined past the end
ArgAt(args, i) == IF i >= 1 /\ i <= Len(args) THEN Str(args[i]) ELSE Undefined

\* arg.replace('--', '') of the tokens that begin with two dashes; no other
\* token of a command line here contains two dashes in a row
Switches ==
  ("--count" :> "count") @@ ("--output" :> "output") @@ ("--unique" :> "unique")
    @@ ("--variations" :> "variations") @@ ("--seed" :> "seed")

replaceDashes(arg) == IF arg \in DOMAIN Switches THEN Switches[arg] ELSE arg

\* the numerals that occur in command lines
Numerals ==
  ("0" :> 0) @@ ("2" :> 2) @@ ("3" :> 3) @@ ("5" :> 5) @@ ("10" :> 10) @@ ("50" :> 50)
    @@ ("100" :> 100) @@ ("12345" :> 12345) @@ ("-1" :> -1) @@ ("-6" :> -6)
    @@ ("-7" :> -7)

\* parseInt(value): NaN of undefined and of a token that does not start as a number
parseInt(value) ==
  IF value.t = "string" /\ value.v \in DOMAIN Numerals THEN Num(Numerals[value.v], 1)
  ELSE NaN

\* what `x || d` tests
Truthy(val) ==
  CASE val.t = "number" -> val.n # 0
    [] val.t = "string" -> val.v # ""
    [] val.t = "boolean" -> val.b
    [] val.t = "object" -> TRUE
    [] val.t = "array" -> TRUE
    [] OTHER -> FALSE

\* options.key, undefined when it was never assigned
Option(options, key) == IF key \in DOMAIN options THEN options[key] ELSE Undefined

\* one round of the parsing loop: the key at position i with the token after it
parsedOption(options, key, value) ==
  CASE key = "count" -> ("count" :> parseInt(value)) @@ options
    [] key = "output" -> ("output" :> value) @@ options
    [] key = "unique" -> ("unique" :> Bool(TRUE)) @@ options
    [] key = "variations" -> ("variations" :> Bool(TRUE)) @@ options
    [] key = "seed" -> ("seed" :> parseInt(value)) @@ options
    [] OTHER -> options

\* for (let i = 1; i < args.length; i += 2)
RECURSIVE parseOptions(_, _, _)
parseOptions(args, i, options) ==
  IF i > Len(args) THEN options
  ELSE parseOptions(args, i + 2,
                    parsedOption(options, replaceDashes(args[i]), ArgAt(args, i + 1)))

TemplatesOfScript == {"user", "product", "order"}

\* the script up to the generation loop: the defaults are applied and the
\* generator is constructed
started(args, options, entropy) ==
  [pc |-> "loop", args |-> args, template |-> ArgAt(args, 1), options |-> options,
   count |-> IF Truthy(Option(options, "count")) THEN Option(options, "count").n ELSE 1,
   output |-> IF Truthy(Option(options, "output")) THEN Option(options, "output").v
              ELSE Interpolate(ArgAt(args, 1)) \o "s.json",
   unique |-> Truthy(Option(options, "unique")),
   seed |-> IF Truthy(Option(options, "seed")) THEN Option(options, "seed").n ELSE entropy,
   currentSeed |-> IF Truthy(Option(options, "seed")) THEN Option(options, "seed").n
                   ELSE entropy,
   i |-> 0, retries |-> 0, data |-> << >>, code |-> 0, stdout |-> << >>,
   stderr |-> << >>, wrote |-> FALSE]

\* switch (template): the record generated, or nothing for an unknown template
generateRecord(template, s, clock) ==
  CASE template = Str("user") -> generateUser(s, clock)
    [] template = Str("product") -> generateProduct(s, clock)
    [] template = Str("order") -> generateOrder(s, clock)
    [] OTHER -> [v |-> Undefined, s |-> s]

\* data.some(item => item.key === record.key)
RECURSIVE some(_, _, _)
some(data, key, val) ==
  IF data = << >> THEN FALSE
  ELSE FieldOf(Head(data), key) = val \/ some(Tail(data), key, val)

\* the uniqueness check: emails of users, ids otherwise
isUnique(template, data, record) ==
  IF template = Str("user") THEN ~some(data, "email", FieldOf(record, "email"))
  ELSE ~some(data, "id", FieldOf(record, "id"))

\* process.exit(code), or an uncaught exception, with what was printed on stderr
exited(c, code, stderr) == [c EXCEPT !.pc = "exited", !.code = code, !.stderr = stderr]

\* the loop body after the record was generated as r; retries observes how
\* often "i--; continue" has repeated the iteration of the current index
iterated(c, r) ==
  IF r.v.t = "throw" THEN exited(c, 1, << r.v.name >>)
  ELSE IF c.unique /\ Len(c.data) > 0 /\ ~isUnique(c.template, c.data, r.v)
  THEN [c EXCEPT !.currentSeed = r.s, !.retries = @ + 1]
  ELSE [c EXCEPT !.currentSeed = r.s, !.data = Append(@, r.v), !.i = @ + 1,
                 !.retries = 0]

\* one iteration of the generation loop
iterate(c, clock) ==
  IF c.template.t = "undefined" \/ c.template.v \notin TemplatesOfScript
  THEN exited(c, 1, << "Unknown template: " \o Interpolate(c.template),
                       "Available templates: user, product, order" >>)
  ELSE iterated(c, generateRecord(c.template, c.currentSeed, clock))

\* what the script prints after the file was written
printed(c) ==
  << [line |-> "Generated records", count |-> Len(c.data), template |-> c.template],
     [line |-> "Saved to", output |-> c.output],
     [line |-> "Seed", seed |-> c.seed] >>
    \o (IF c.unique THEN << [line |-> "All records are unique"] >> ELSE << >>)
    \o (IF Truthy(Option(c.options, "variations"))
        THEN << [line |-> "Variations enabled"] >> ELSE << >>)

\* the script after the loop: the file is written and the summary printed;
\* a failed write is an uncaught exception
written(c, writable) ==
  IF writable THEN [c EXCEPT !.pc = "exited", !.wrote = TRUE, !.stdout = printed(c)]
  ELSE exited(c, 1, << "Error" >>)

CliStart(args, entropy) ==
  /\ cli.pc = "idle"
  /\ cli' = started(args, parseOptions(args, 2, EmptyMap), entropy)
  /\ UNCHANGED << gen, dataGenerator, hist, now, disk, loaded, tagging >>

CliIterate ==
  /\ cli.pc = "loop"
  /\ cli.i < cli.count
  /\ cli' = iterate(cli, now)
  /\ UNCHANGED << gen, dataGenerator, hist, now, disk, loaded, tagging >>

CliWrite(writable) ==
  /\ cli.pc = "loop"
  /\ cli.i >= cli.count
  /\ cli' = written(cli, writable)
  /\ fixtures' = IF writable THEN (cli.output :> JSONDocument(Arr(cli.data))) @@ fixtures
                 ELSE fixtures
  /\ UNCHANGED << gen, dataGenerator, hist, now, templateFiles, loaded, tagging >>

(***************************************************************************)
(* Test tagging (support/commands/tags): the commands tag and filterByTags *)
(* and the hooks of a test.  A test is run as Mocha runs it: the root      *)
(* beforeEach of the support file, the beforeEach of the suite, and then   *)
(* the commands that the body of the test enqueued, in order.              *)
(***************************************************************************)
\* the elements of a sequence
Range(seq) == {seq[i] : i \in 1..Len(seq)}

\* the tags that a command of a test body adds: tag(...tags) and the
\* convenience commands, which call tag with two fixed tags
TagsOf(command) ==
  CASE command.cmd = "tag" -> command.tags
    [] command.cmd = "smoke" -> << "smoke", "critical" >>
    [] command.cmd = "regression" -> << "regression", "comprehensive" >>
    [] command.cmd = "critical" -> << "critical", "high-priority" >>
    [] OTHER -> << >>

\* filterByTags(allowedTags) with the store holding tags: TRUE when it throws
\* 'Test skipped due to tag filtering'
filterThrows(tags, allowedTags) ==
  /\ ~(\E i \in 1..Len(tags) : tags[i] \in Range(allowedTags))
  /\ Len(tags) > 0

\* test bodies: the commands they enqueue
Bodies ==
  { << [cmd |-> "smoke"], [cmd |-> "generateUser"] >>,
    << [cmd |-> "tag", tags |-> << "data-generation", "unit" >>],
       [cmd |-> "generateUser"] >>,
    << [cmd |-> "regression"], [cmd |-> "generateUser"] >>,
    << [cmd |-> "generateUser"] >>,
    << [cmd |-> "tag", tags |-> << "smoke", "critical", "integration" >>],
       [cmd |-> "filterByTags", allowedTags |-> << "smoke", "critical" >>],
       [cmd |-> "smoke"] >>,
    << [cmd |-> "critical"],
       [cmd |-> "filterByTags", allowedTags |-> << "smoke" >>],
       [cmd |-> "generateUser"] >> }

\* Cypress.env('TAGS')?.split(',') || [] for TAGS unset, smoke, regression
\* and smoke,critical
AllowedTags == { << >>, << "smoke" >>, << "regression" >>, << "smoke", "critical" >> }

\* the runner starts a test of a suite whose beforeEach filters by allowed:
\* the root beforeEach of the tags module empties the store.  After a
\* beforeEach hook failed Mocha runs no further test of the suite.
RunTest(allowed, body) ==
  /\ test.pc \in {"idle", "passed", "failed"}
  /\ test.pc = "failed" => test.failedIn = "it"
  /\ test.n < MaxTests
  /\ currentTestTags' = << >>
  /\ test' = [pc |-> "beforeEach", n |-> test.n + 1, allowed |-> allowed,
              body |-> body, declared |-> << >>, ran |-> 0]
  /\ UNCHANGED << gen, dataGenerator, hist, now, disk, loaded, cli >>

\* the beforeEach of the suite: cy.filterByTags(allowed)
SuiteBeforeEach ==
  /\ test.pc = "beforeEach"
  /\ test' = IF filterThrows(currentTestTags, test.allowed)
             THEN [test EXCEPT !.pc = "failed"] @@ [failedIn |-> "beforeEach"]
             ELSE [test EXCEPT !.pc = "it"]
  /\ UNCHANGED << gen, dataGenerator, hist, now, disk, loaded, cli, currentTestTags >>

\* the next command of the test body runs; the test passes after its last
RunCommand ==
  /\ test.pc = "it"
  /\ LET command == test.body[test.ran + 1]
     IN  IF command.cmd = "filterByTags"
              /\ filterThrows(currentTestTags, command.allowedTags)
         THEN /\ test' = [test EXCEPT !.pc = "failed"] @@ [failedIn |-> "it"]
              /\ UNCHANGED currentTestTags
         ELSE /\ currentTestTags' = currentTestTags \o TagsOf(command)
              /\ test' = [test EXCEPT
                            !.ran = @ + 1,
                            !.declared = @ \o TagsOf(command),
                            !.pc = IF test.ran + 1 = Len(test.body)
                                   THEN "passed" ELSE "it"]
  /\ UNCHANGED << gen, dataGenerator, hist, now, disk, loaded, cli >>

NextTags ==
  \/ \E allowed \in AllowedTags, body \in Bodies : RunTest(allowed, body)
  \/ SuiteBeforeEach
  \/ RunCommand

SpecTags == Init /\ [][NextTags]_vars

\* the template file of templateName is deleted
RemoveTemplateFile(templateName) ==
  /\ templateName \in DOMAIN templateFiles
  /\ templateFiles' = [name \in DOMAIN templateFiles \ {templateName} |->
                         templateFiles[name]]
  /\ UNCHANGED << gen, dataGenerator, hist, now, fixtures, shell >>

\* the template file of templateName is written with other content
WriteTemplateFile(templateName, template) ==
  /\ Stored(templateFiles, templateName) # << template >>
  /\ templateFiles' = (templateName :> template) @@ templateFiles
  /\ UNCHANGED << gen, dataGenerator, hist, now, fixtures, shell >>

\* a day passes
Tick ==
  /\ now.day - Clock0.day < MaxTicks
  /\ now' = [now EXCEPT !.day = @ + 1]
  /\ UNCHANGED << gen, dataGenerator, hist, disk, shell >>

SeedArgOptions(seeds) == {<< >>} \cup {<<seed>> : seed \in seeds}

\* one caller-owned generator and the clock
Next ==
  \/ \E seedArg \in SeedArgOptions(SeedArgs), entropy \in Entropy :
       Construct(1, seedArg, entropy)
  \/ \E templateName \in TemplateNames, options \in OptionSet :
       Generate(1, MaxCalls, templateName, options)
  \/ Tick

Spec == Init /\ [][Next]_vars

\* successive commands on the module-level generator
NextSeq ==
  \/ \E entropy \in Entropy, templateName \in TemplateNames, options \in OptionSet :
       GenerateData(1, MaxSeqCalls, entropy, templateName, options)
  \/ \E entropy \in Entropy, options \in OptionSet :
       GenerateUser(1, MaxSeqCalls, entropy, options)

SpecSeq == Init /\ [][NextSeq]_vars

\* two caller-owned generators side by side, called with a seed option
NextPair ==
  \/ \E i \in Inst, seedArg \in SeedArgOptions(PairSeedArgs), entropy \in Entropy :
       Construct(i, seedArg, entropy)
  \/ \E i \in Inst, templateName \in TemplateNames, options \in SeededOptions :
       Generate(i, MaxCalls, templateName, options)

SpecPair == Init /\ [][NextPair]_vars

\* one caller-owned generator that exports what it generates, and a test that
\* loads fixture files
NextFile ==
  \/ \E seedArg \in SeedArgOptions(SeedArgs), entropy \in Entropy :
       Construct(1, seedArg, entropy)
  \/ \E templateName \in FileTemplateNames, filename \in FileNames,
        options \in FileOptions, writable \in BOOLEAN :
       GenerateAndExport(1, MaxExports, templateName, filename, options, writable)
  \/ \E filename \in FileNames : LoadGeneratedData(MaxLoads, filename)

SpecFile == Init /\ [][NextFile]_vars

\* a generator that is reused (slot 1) next to one that is called once (slot 2)
NextReuse ==
  \/ \E i \in Inst, seed \in ReuseSeeds, entropy \in Entropy :
       Construct(i, << seed >>, entropy)
  \/ \E templateName \in ReuseTemplateNames, options \in ReuseOptions :
       \/ Generate(1, MaxReuseCalls, templateName, options)
       \/ Generate(2, 1, templateName, options)

SpecReuse == Init /\ [][NextReuse]_vars

\* a generator asked for batches of unique seat records
NextRetry ==
  \/ \E seed \in RetrySeeds, entropy \in Entropy : Construct(1, << seed >>, entropy)
  \/ \E options \in RetryOptions : Generate(1, MaxRetryCalls, "seat", options)

SpecRetry == Init /\ [][NextRetry]_vars

\* two caller-owned generators and the clock
NextClock ==
  \/ \E i \in Inst, seed \in ClockSeeds, entropy \in Entropy :
       Construct(i, << seed >>, entropy)
  \/ \E i \in Inst, templateName \in ClockTemplateNames, options \in ClockOptions :
       Generate(i, MaxClockCalls, templateName, options)
  \/ Tick

SpecClock == Init /\ [][NextClock]_vars

\* a generator in use while template files are rewritten and deleted
NextCache ==
  \/ \E seed \in SeedArgs, entropy \in Entropy : Construct(1, << seed >>, entropy)
  \/ \E templateName \in CacheTemplateNames, options \in CacheOptions :
       Generate(1, MaxCacheCalls, templateName, options)
  \/ \E templateName \in CacheTemplateNames : RemoveTemplateFile(templateName)
  \/ \E templateName \in CacheTemplateNames, template \in CacheTemplates :
       WriteTemplateFile(templateName, template)

SpecCache == Init /\ [][NextCache]_vars

\* one run of the script
NextCli ==
  \/ \E args \in CommandLines, entropy \in Entropy : CliStart(args, entropy)
  \/ CliIterate
  \/ \E writable \in BOOLEAN : CliWrite(writable)

SpecCli == Init /\ [][NextCli]_vars

(***************************************************************************)
(* Observations used by the properties                                     *)
(***************************************************************************)
\* the outcomes of all generate calls made so far
Outcomes == UNION {{hist[i][k] : k \in 1..Len(hist[i])} : i \in Inst}
Returned == {out \in Outcomes : out.kind = "ok"}

\* options as generate destructures them
CountOf(options) == Default(options, "count", 1)
UniqueOf(options) == Default(options, "unique", FALSE)
VariationsOf(options) == Default(options, "variations", TRUE)

\* a PRNG state that createSeededRandom reaches from a non-negative seed
InRange(currentSeed) == currentSeed >= 0

\* Object.keys of a generated object and of a schema
KeysOf(fields) == [i \in 1..Len(fields) |-> fields[i][1]]

\* numbers n / scale against a template bound b.n / b.d
AtLeast(num, b) == num.n * b.d >= b.n * num.scale
AtMost(num, b) == num.n * b.d <= b.n * num.scale

(***************************************************************************)
(* C1  Determinism of the seed option across instances                     *)
(***************************************************************************)
\* C1: generate(T, {seed: S, count: 5}) called first thing on two generator
\* instances constructed without a seed, at the same clock time, returns the
\* same record sequence on both.
C1_SeedOptionDeterminism ==
  \A i, j \in Inst :
    ( /\ gen[i].made /\ gen[j].made
      /\ gen[i].seedArg = << >> /\ gen[j].seedArg = << >>
      /\ Len(hist[i]) >= 1 /\ Len(hist[j]) >= 1
      /\ hist[i][1].kind = "ok" /\ hist[j][1].kind = "ok"
      /\ hist[i][1].call.templateName = hist[j][1].call.templateName
      /\ hist[i][1].call.options = hist[j][1].call.options
      /\ hist[i][1].call.clock = hist[j][1].call.clock
      /\ Has(hist[i][1].call.options, "seed")
      /\ CountOf(hist[i][1].call.options) = 5 )
    => hist[i][1].results = hist[j][1].results

(***************************************************************************)
(* C2  Same seed option, same data, on the shared generator                *)
(***************************************************************************)
\* C2: two successive commands on the module-level generator with the same
\* template, the same options including a seed, at the same clock time,
\* return deep-equal record sequences.
C2_SuccessiveCommandsEqual ==
  \A k \in 1..(Len(hist[1]) - 1) :
    ( /\ dataGenerator = 1
      /\ hist[1][k].kind = "ok" /\ hist[1][k + 1].kind = "ok"
      /\ hist[1][k].call.templateName = hist[1][k + 1].call.templateName
      /\ hist[1][k].call.options = hist[1][k + 1].call.options
      /\ hist[1][k].call.clock = hist[1][k + 1].call.clock
      /\ Has(hist[1][k].call.options, "seed") )
    => hist[1][k].results = hist[1][k + 1].results

(***************************************************************************)
(* C3  Count and order                                                     *)
(***************************************************************************)
\* the records of `left` iterations without uniqueness, generated one after
\* the other from state s
RECURSIVE InOrder(_, _, _, _, _, _)
InOrderNext(r, left, template, variations, at, records) ==
  InOrder(r.s, left - 1, template, variations, at, Append(records, r.v))

InOrder(s, left, template, variations, at, records) ==
  IF left <= 0 THEN records
  ELSE InOrderNext(generateSingleRecord(s, template, variations, at),
                   left, template, variations, at, records)

FirstRecord(out) ==
  generateSingleRecord(out.call.seedBefore, out.template,
                       VariationsOf(out.call.options), out.call.clock).v

\* C3: every call that returns, returns exactly count records (one when no
\* count is given), with uniqueness or without, exhausted or not; the first
\* record is the one generated first, and without uniqueness the records
\* are the ones generated one after the other, in that order.
C3_CountAndOrder ==
  \A out \in Returned :
    /\ Len(out.results) = CountOf(out.call.options)
    /\ Len(out.attempts) = CountOf(out.call.options)
    /\ out.results[1] = FirstRecord(out)
    /\ ~UniqueOf(out.call.options) =>
         out.results = InOrder(out.call.seedBefore, CountOf(out.call.options),
                               out.template,
                               VariationsOf(out.call.options), out.call.clock, << >>)

\* a unique batch of five in which retries were exhausted returned five records
C3_Witness ==
  \E out \in Returned :
    /\ UniqueOf(out.call.options)
    /\ CountOf(out.call.options) = 5
    /\ out.warned # << >>
    /\ Len(out.results) = 5

(***************************************************************************)
(* C4  Shape conformance                                                   *)
(***************************************************************************)
RECURSIVE Conforms(_, _)
Conforms(val, type) ==
  CASE type.k = "object" ->
         /\ val.t = "object"
         /\ KeysOf(val.f) = KeysOf(type.fields)
         /\ \A i \in 1..Len(type.fields) : Conforms(val.f[i][2], type.fields[i][2])
    [] type.k = "array" ->
         /\ val.t = "array"
         /\ \A i \in 1..Len(val.a) : Conforms(val.a[i], type.elem)
    [] OTHER -> val.t \notin {"object", "array"}

\* C4: every generated record has exactly the keys of the schema, in every
\* nested object and in every element of an array of objects.
C4_ShapeConformance ==
  \A out \in Returned :
    \A k \in 1..Len(out.results) :
      Conforms(out.results[k], ObjectOf(out.template.schema))

\* a catalog record with a nested object and at least two array elements
C4_Witness ==
  \E out \in Returned :
    /\ out.call.templateName = "catalog"
    /\ Len(FieldOf(out.results[1], "items").a) >= 2
    /\ KeysOf(FieldOf(out.results[1], "items").a[2].f) = << "sku", "inStock" >>
    /\ KeysOf(FieldOf(out.results[1], "size").f) = << "width", "unit" >>

(***************************************************************************)
(* C5  Unique emails                                                       *)
(***************************************************************************)
EmailOf(record) == FieldOf(record, "email").v

\* C5: a unique batch of users, generated from a PRNG state in range, holds
\* no two records with the same email.
C5_UniqueEmails ==
  \A out \in Returned :
    ( /\ out.call.templateName = "user"
      /\ UniqueOf(out.call.options)
      /\ InRange(out.call.seedBefore) )
    => \A a, b \in 1..Len(out.results) :
         a # b => EmailOf(out.results[a]) # EmailOf(out.results[b])

(***************************************************************************)
(* C6  Numeric bounds                                                      *)
(***************************************************************************)
\* the top-level number fields of a template that have both bounds
BoundedNumbers(template) ==
  {i \in 1..Len(template.schema) :
     /\ template.schema[i][2] = Tag("number")
     /\ Has(template, "constraints")
     /\ Has(template.constraints, template.schema[i][1])
     /\ Has(template.constraints[template.schema[i][1]], "min")
     /\ Has(template.constraints[template.schema[i][1]], "max")}

\* C6: every value of a number field with constraints min and max, generated
\* from a PRNG state in range, lies between min and max.
C6_NumericBounds ==
  \A out \in Returned :
    InRange(out.call.seedBefore) =>
      \A k \in 1..Len(out.results) :
        \A i \in BoundedNumbers(out.template) :
          /\ AtLeast(out.results[k].f[i][2],
                     out.template.constraints[out.results[k].f[i][1]].min)
          /\ AtMost(out.results[k].f[i][2],
                    out.template.constraints[out.results[k].f[i][1]].max)

(***************************************************************************)
(* C7  Template not found                                                  *)
(***************************************************************************)
\* C7: a call that names a template the store does not hold throws an error
\* naming that template and returns no sequence; the generator is as before.
C7_TemplateNotFound ==
  \A i \in Inst :
    \A k \in 1..Len(hist[i]) :
      hist[i][k].call.templateName \notin DOMAIN Store =>
        /\ hist[i][k].kind = "error"
        /\ hist[i][k].error.templateName = hist[i][k].call.templateName
        /\ ~Has(hist[i][k], "results")
        /\ k = Len(hist[i]) =>
             /\ gen[i].currentSeed = hist[i][k].call.seedBefore
             /\ hist[i][k].call.templateName \notin DOMAIN gen[i].templates

\* a call for "nonexistent" was made and threw
C7_Witness ==
  \E out \in Outcomes :
    /\ out.call.templateName = "nonexistent"
    /\ out.kind = "error"
    /\ out.error.templateName = "nonexistent"

(***************************************************************************)
(* C8  Uniqueness is best effort                                           *)
(***************************************************************************)
\* the iterations (from 0) whose record repeats an earlier record of the batch
Repeats(results) ==
  {k \in 0..(Len(results) - 1) :
     \E j \in 1..k : JSONStringify(results[j]) = JSONStringify(results[k + 1])}

\* C8: a unique batch returns count records even when the template cannot
\* produce that many distinct ones; an iteration emits a repeated record
\* only after maxAttempts attempts and with a warning.
C8_BestEffortUnique ==
  \A out \in Returned :
    UniqueOf(out.call.options) =>
      /\ Len(out.results) = CountOf(out.call.options)
      /\ \A k \in Repeats(out.results) :
           /\ out.attempts[k + 1] = maxAttemptsUnique
           /\ \E w \in 1..Len(out.warned) : out.warned[w] = k

\* a unique batch of five from the template with two distinct records: five
\* records came back, at least three of them repeats, each with a warning
C8_Witness ==
  \E out \in Returned :
    /\ out.call.templateName = "flag"
    /\ UniqueOf(out.call.options)
    /\ CountOf(out.call.options) = 5
    /\ Len(out.results) = 5
    /\ Cardinality(Repeats(out.results)) >= 3
    /\ Len(out.warned) >= 3

(***************************************************************************)
(* C9  Same seed, same sequence                                            *)
(***************************************************************************)
\* C9: two generators constructed with the same seed argument that have had
\* the same calls hold the same PRNG state and returned the same outcomes.
C9_SameSeedSameSequence ==
  \A i, j \in Inst :
    ( /\ gen[i].made /\ gen[j].made
      /\ gen[i].seedArg # << >>
      /\ gen[i].seedArg = gen[j].seedArg
      /\ Len(hist[i]) = Len(hist[j])
      /\ \A k \in 1..Len(hist[i]) :
           /\ hist[i][k].call.templateName = hist[j][k].call.templateName
           /\ hist[i][k].call.options = hist[j][k].call.options
           /\ hist[i][k].call.clock = hist[j][k].call.clock )
    => /\ gen[i].currentSeed = gen[j].currentSeed
       /\ hist[i] = hist[j]

(***************************************************************************)
(* C10  PRNG range                                                         *)
(***************************************************************************)
\* C10: after a call that drew from the PRNG, whatever integer seed the
\* generator was constructed with, the PRNG state is in 0..Modulus-1, so
\* that the value returned by next() is in [0, 1).
C10_StateInRange ==
  \A i \in Inst :
    ( /\ gen[i].made
      /\ gen[i].seedArg # << >>
      /\ \E k \in 1..Len(hist[i]) : hist[i][k].kind = "ok" )
    => gen[i].currentSeed \in 0..(Modulus - 1)

(***************************************************************************)
(* C11  generateAndExport returns what it wrote                            *)
(***************************************************************************)
Last(seq) == seq[Len(seq)]

\* the outcomes of slot i that are generateAndExport calls for filename and
\* returned, by position
Exports(i, filename) ==
  {k \in 1..Len(hist[i]) :
     /\ Has(hist[i][k], "filename")
     /\ hist[i][k].filename = filename
     /\ hist[i][k].kind = "ok"}

\* a generateAndExport call whose write failed is in the history
WriteFailed ==
  \E out \in Outcomes :
    /\ Has(out, "filename")
    /\ out.kind = "error"
    /\ out.error.message = "Failed to export data"

\* C11: whenever a generateAndExport call ends, either it returned a record
\* sequence and the file it named then holds exactly the serialization of
\* that sequence, or it threw and returned no sequence; in particular a
\* failed write is never followed by a normal return.
C11_ReturnsWhatItWrote ==
  [][\A i \in Inst :
       (Len(hist'[i]) = Len(hist[i]) + 1 /\ Has(Last(hist'[i]), "filename")) =>
         IF Last(hist'[i]).kind = "ok"
         THEN /\ Last(hist'[i]).filename \in DOMAIN fixtures'
              /\ fixtures'[Last(hist'[i]).filename]
                   = JSONDocument(Arr(Last(hist'[i]).results))
         ELSE ~Has(Last(hist'[i]), "results")]_vars

\* a call wrote two records to a file and returned them, and another call's
\* write failed
C11_Witness ==
  /\ WriteFailed
  /\ \E filename \in FileNames :
       /\ Exports(1, filename) # {}
       /\ filename \in DOMAIN fixtures
       /\ \E k \in Exports(1, filename) :
            /\ Len(hist[1][k].results) = 2
            /\ fixtures[filename] = JSONDocument(Arr(hist[1][k].results))

(***************************************************************************)
(* C12  Export then load                                                   *)
(***************************************************************************)
RECURSIVE Canonical(_)
RECURSIVE canonicalFields(_, _, _)
RECURSIVE canonicalItems(_, _, _)

canonicalFields(fields, i, done) ==
  IF i > Len(fields) THEN done
  ELSE canonicalFields(fields, i + 1,
         Append(done, << fields[i][1], Canonical(fields[i][2]) >>))

canonicalItems(items, i, done) ==
  IF i > Len(items) THEN done
  ELSE canonicalItems(items, i + 1, Append(done, Canonical(items[i])))

\* val with every number in lowest terms, so that equal values are equal records
Canonical(val) ==
  CASE val.t = "number" -> Num(Lowest(val.n, val.scale).n, Lowest(val.n, val.scale).scale)
    [] val.t = "object" -> Obj(canonicalFields(val.f, 1, << >>))
    [] val.t = "array" -> Arr(canonicalItems(val.a, 1, << >>))
    [] OTHER -> val

\* the last generateAndExport call of slot i that wrote filename
LastExport(i, filename) ==
  hist[i][CHOOSE k \in Exports(i, filename) : \A other \in Exports(i, filename) : other <= k]

\* C12: whenever a file written by generateAndExport is loaded back, the
\* loaded sequence equals the sequence that was exported: same length, same
\* order, every record equal value for value.
C12_RoundTrip ==
  [][\A i \in Inst :
       (/\ Len(loaded') = Len(loaded) + 1
        /\ Last(loaded').kind = "ok"
        /\ Exports(i, Last(loaded').filename) # {}) =>
         Last(loaded').data
           = Canonical(Arr(LastExport(i, Last(loaded').filename).results))]_vars

(***************************************************************************)
(* C13  The script rejects an unknown template                             *)
(***************************************************************************)
\* C13: a run of the script whose template name is not user, product or
\* order ends with a non-zero exit code and an error message, and writes no
\* output file, whatever --count is given.
C13_UnknownTemplateRejected ==
  (/\ cli.pc = "exited"
   /\ (cli.template.t = "undefined" \/ cli.template.v \notin TemplatesOfScript)) =>
    /\ cli.code # 0
    /\ cli.stderr # << >>
    /\ ~cli.wrote
    /\ cli.output \notin DOMAIN fixtures

(***************************************************************************)
(* C14  The script applies every flag                                      *)
(***************************************************************************)
ValueFlags == {"--count", "--output", "--seed"}
SwitchFlags == {"--unique", "--variations"}

\* the flags of a command line as the documentation reads it: a value flag
\* takes the token after it, a switch takes none
RECURSIVE Given(_, _, _)
Given(args, i, flags) ==
  IF i > Len(args) THEN flags
  ELSE IF args[i] \in ValueFlags
  THEN Given(args, i + 2, (args[i] :> ArgAt(args, i + 1)) @@ flags)
  ELSE IF args[i] \in SwitchFlags
  THEN Given(args, i + 1, (args[i] :> Bool(TRUE)) @@ flags)
  ELSE Given(args, i + 1, flags)

GivenFlags == Given(cli.args, 2, EmptyMap)

\* C14: once the script has read its command line, every flag given after
\* the template name is in force: the output file is the token after
\* --output, the count and the seed are the numbers after --count and
\* --seed, and --unique and --variations are on when given, wherever they
\* stand.
C14_EveryFlagApplied ==
  cli.pc # "idle" =>
    /\ ("--output" \in DOMAIN GivenFlags /\ Truthy(GivenFlags["--output"])) =>
         cli.output = GivenFlags["--output"].v
    /\ ("--count" \in DOMAIN GivenFlags /\ Truthy(parseInt(GivenFlags["--count"]))) =>
         cli.count = parseInt(GivenFlags["--count"]).n
    /\ ("--seed" \in DOMAIN GivenFlags /\ Truthy(parseInt(GivenFlags["--seed"]))) =>
         cli.seed = parseInt(GivenFlags["--seed"]).n
    /\ "--unique" \in DOMAIN GivenFlags => cli.unique
    /\ "--variations" \in DOMAIN GivenFlags => Truthy(Option(cli.options, "variations"))

(***************************************************************************)
(* C15  generate terminates                                                *)
(***************************************************************************)
RECURSIVE Sum(_)
Sum(seq) == IF seq = << >> THEN 0 ELSE Head(seq) + Sum(Tail(seq))

\* the iterations (from 1) that generated more than one record
Retried(out) == {k \in 1..Len(out.attempts) : out.attempts[k] > 1}

\* the first of them
FirstRetried(out) == CHOOSE k \in Retried(out) : \A other \in Retried(out) : k <= other

\* the candidate that iteration k generated first, when no earlier iteration
\* generated more than one record
FirstCandidate(out, k) ==
  InOrder(out.call.seedBefore, k, out.template, VariationsOf(out.call.options),
          out.call.clock, << >>)[k]

\* C15: every iteration of a returned call generated at least one and at
\* most 100 records, so the call generated at most 100 * count; without
\* uniqueness every iteration generated exactly one; with uniqueness the
\* first iteration that generated more than one did so because its first
\* candidate was equal to a record emitted before it.
C15_BoundedGenerations ==
  \A out \in Returned :
    /\ \A k \in 1..Len(out.attempts) :
         out.attempts[k] >= 1 /\ out.attempts[k] <= maxAttemptsUnique
    /\ Sum(out.attempts) <= maxAttemptsUnique * CountOf(out.call.options)
    /\ ~UniqueOf(out.call.options) => Retried(out) = {}
    /\ Retried(out) # {} =>
         /\ FirstRetried(out) > 1
         /\ \E j \in 1..(FirstRetried(out) - 1) :
              JSONStringify(out.results[j])
                = JSONStringify(FirstCandidate(out, FirstRetried(out)))

\* a unique batch in which one iteration ran out of attempts and another
\* found a fresh record on a later attempt, and the call returned
C15_Witness ==
  \E out \in Returned :
    /\ UniqueOf(out.call.options)
    /\ \E k \in 1..Len(out.attempts) : out.attempts[k] = maxAttemptsUnique
    /\ \E k \in 1..Len(out.attempts) :
         out.attempts[k] > 1 /\ out.attempts[k] < maxAttemptsUnique

(***************************************************************************)
(* C16  Uniqueness within one batch only                                   *)
(***************************************************************************)
\* the calls of slot i that returned, by position
ReturnedAt(i) == {k \in 1..Len(hist[i]) : hist[i][k].kind = "ok"}

\* the keys of the records a call returned
KeysEmitted(out) == {JSONStringify(out.results[n]) : n \in 1..Len(out.results)}

\* C16: every unique call starts with no emitted keys: its first iteration
\* generates once and logs no warning, whatever earlier calls on the same
\* instance emitted; within the call a record equal to an earlier record of
\* that call is emitted only after 100 attempts.
C16_UniqueWithinBatch ==
  \A i \in Inst : \A k \in ReturnedAt(i) :
    UniqueOf(hist[i][k].call.options) =>
      /\ hist[i][k].attempts[1] = 1
      /\ \A w \in 1..Len(hist[i][k].warned) : hist[i][k].warned[w] # 0
      /\ \A r \in Repeats(hist[i][k].results) :
           hist[i][k].attempts[r + 1] = maxAttemptsUnique

\* a later unique call on the same instance emitted, first and without a
\* retry, a record that an earlier call had emitted
C16_Witness ==
  \E k \in ReturnedAt(1) : \E j \in ReturnedAt(1) :
    /\ j < k
    /\ UniqueOf(hist[1][k].call.options)
    /\ hist[1][j].call.templateName = hist[1][k].call.templateName
    /\ JSONStringify(hist[1][k].results[1]) \in KeysEmitted(hist[1][j])
    /\ hist[1][k].attempts[1] = 1
    /\ hist[1][k].warned = << >>

(***************************************************************************)
(* C17  A reused generator continues its sequence                          *)
(***************************************************************************)
\* the first two calls of slot i returned a and b records of one template
\* and the first call of slot j, constructed with the same seed, returned
\* a + b records of it, all without uniqueness
SplitOf(i, j) ==
  /\ i # j
  /\ gen[i].made /\ gen[j].made
  /\ gen[i].seedArg = gen[j].seedArg
  /\ gen[i].seedArg # << >>
  /\ Len(hist[i]) >= 2 /\ Len(hist[j]) >= 1
  /\ hist[i][1].kind = "ok" /\ hist[i][2].kind = "ok" /\ hist[j][1].kind = "ok"
  /\ hist[i][1].call.templateName = hist[j][1].call.templateName
  /\ hist[i][2].call.templateName = hist[j][1].call.templateName
  /\ ~UniqueOf(hist[i][1].call.options)
  /\ ~UniqueOf(hist[i][2].call.options)
  /\ ~UniqueOf(hist[j][1].call.options)
  /\ CountOf(hist[j][1].call.options)
       = CountOf(hist[i][1].call.options) + CountOf(hist[i][2].call.options)

\* C17: two successive calls for a and b records on one instance return,
\* put together, the records that one call for a + b records returns on an
\* instance constructed with the same seed.
C17_SequenceContinues ==
  \A i \in Inst : \A j \in Inst :
    SplitOf(i, j) => hist[i][1].results \o hist[i][2].results = hist[j][1].results

AfterChange(i, later, stored) ==
  \E k \in ReturnedAt(i) :
    /\ k < later
    /\ later <= Len(hist[i])
    /\ hist[i][later].call.templateName = hist[i][k].call.templateName
    /\ hist[i][later].call.stored = stored
    /\ stored # << hist[i][k].template >>
    /\ hist[i][later].kind = "ok"
    /\ hist[i][later].template = hist[i][k].template

Declared(out) == Store[out.call.templateName].schema

\* the fields valued in turn from state s in the order given, each from the
\* state in which the one before it left the PRNG
RECURSIVE drawnInTurn(_, _, _, _, _)
drawnInTurn(s, fields, template, variations, clock) ==
  IF fields = << >> THEN << >>
  ELSE << << fields[1][1],
             generateFieldValue(s, fields[1][1], fields[1][2], template,
                                variations, clock).v >> >>
         \o drawnInTurn(generateFieldValue(s, fields[1][1], fields[1][2], template,
                                           variations, clock).s,
                        Tail(fields), template, variations, clock)

\* C19: the fields of every record, and of every object nested in it, are in
\* the order in which the template file declares them, and the first record
\* of a call has the values that drawing the declared fields one after the
\* other gives, each field after all draws of the fields declared before it.
C19_DeclarationOrder ==
  \A out \in Returned :
    /\ \A k \in 1..Len(out.results) :
         Conforms(out.results[k], ObjectOf(Declared(out)))
    /\ out.results[1].f
         = drawnInTurn(out.call.seedBefore, Declared(out), out.template,
                       VariationsOf(out.call.options), out.call.clock)

(***************************************************************************)
(* C20: length of a synthesized string                                     *)
(***************************************************************************)
\* the field has no data pool to pick from
Poolless(template, field) ==
  \/ Lookup(template, "data", field) = << >>
  \/ Lookup(template, "data", field)[1] = << >>

\* the strings that were synthesized for val, generated as field of the
\* given type, each with the field whose constraints apply to it
RECURSIVE Synthesized(_, _, _, _)
Synthesized(val, field, type, template) ==
  CASE type.k = "object" ->
         UNION {Synthesized(val.f[i][2], type.fields[i][1], type.fields[i][2], template)
                  : i \in 1..Len(type.fields)}
    [] type.k = "array" ->
         UNION {Synthesized(val.a[i], field, type.elem, template) : i \in 1..Len(val.a)}
    [] OTHER ->
         IF type.tag = "string" /\ Poolless(template, field)
         THEN {[field |-> field, text |-> val.v]} ELSE {}

\* the bound of the field's length: the constraint if the template supplies
\* it, the default otherwise
LengthBound(template, field, bound, default) ==
  IF Lookup(template, "constraints", field) # << >>
       /\ Has(Lookup(template, "constraints", field)[1], bound)
  THEN Lookup(template, "constraints", field)[1][bound]
  ELSE default

\* C20: every string synthesized for a field without a data pool has a
\* length between minLength (3 when not supplied, 0 when supplied as 0) and
\* maxLength (20 when not supplied), whenever the lower bound is at most
\* the upper bound.
C20_LengthWithinBounds ==
  \A out \in Returned : \A k \in 1..Len(out.results) :
    \A str \in Synthesized(out.results[k], "", ObjectOf(out.template.schema),
                           out.template) :
      LengthBound(out.template, str.field, "minLength", 3)
          <= LengthBound(out.template, str.field, "maxLength", 20)
        => /\ LengthBound(out.template, str.field, "minLength", 3) <= Len(str.text)
           /\ Len(str.text) <= LengthBound(out.template, str.field, "maxLength", 20)

(***************************************************************************)
(* C21: type tags that the switch does not know                            *)
(***************************************************************************)
RecognizedTags ==
  {"string", "number", "boolean", "email", "phone", "date", "datetime", "url",
   "text", "enum"}

\* acc, the PRNG states reached so far, extended by the states that the
\* fields after them leave, one state per field
RECURSIVE StatesAlong(_, _, _, _, _)
StatesAlong(acc, fields, template, variations, clock) ==
  IF Len(acc) > Len(fields) THEN acc
  ELSE StatesAlong(Append(acc,
                          generateFieldValue(acc[Len(acc)], fields[Len(acc)][1],
                                             fields[Len(acc)][2], template,
                                             variations, clock).s),
                   fields, template, variations, clock)

\* the PRNG state before field i of the fields is generated, s being the
\* state before the first
StateBefore(s, fields, i, template, variations, clock) ==
  StatesAlong(<< s >>, SubSeq(fields, 1, i - 1), template, variations, clock)[i]

\* the state before field i of the first record of a call
FirstStateBefore(out, i) ==
  StateBefore(out.call.seedBefore, out.template.schema, i, out.template,
              VariationsOf(out.call.options), out.call.clock)

\* the constraints of a field, {} when the template has none
ConstraintsOf(template, field) ==
  IF Lookup(template, "constraints", field) = << >> THEN EmptyObject
  ELSE Lookup(template, "constraints", field)[1]

\* the top-level fields of a template whose type is a tag outside the switch
Unrecognized(template) ==
  {i \in 1..Len(template.schema) :
     /\ template.schema[i][2].k = "tag"
     /\ template.schema[i][2].tag \notin RecognizedTags}

\* C21: a call on a template that has a file returns, whatever tags its
\* schema holds; in the first record a field with an unrecognized tag has the
\* value of the enum rule when an enum list is registered for the field, and
\* the value of the string rule otherwise.
C21_UnrecognizedTagFallback ==
  \A out \in Outcomes :
    out.call.stored # << >> =>
      /\ out.kind = "ok"
      /\ \A i \in Unrecognized(out.template) :
           out.results[1].f[i][2]
             = IF Has(out.template, "enums")
                    /\ Has(out.template.enums, out.template.schema[i][1])
               THEN generateEnum(FirstStateBefore(out, i),
                                 << out.template.enums[out.template.schema[i][1]] >>,
                                 VariationsOf(out.call.options)).v
               ELSE generateString(FirstStateBefore(out, i),
                                   ConstraintsOf(out.template, out.template.schema[i][1]),
                                   Lookup(out.template, "data", out.template.schema[i][1]),
                                   VariationsOf(out.call.options)).v

\* a survey record whose mood, of tag scale, is one of the registered enum
\* values, whose grade, with an empty enum list, is "unknown", whose ref, of
\* tag uuid, is a synthesized string and whose origin is taken from its pool
C21_Witness ==
  \E out \in Returned :
    /\ out.call.templateName = "survey"
    /\ ~VariationsOf(out.call.options)
    /\ FieldOf(out.results[1], "mood") \in {Str("low"), Str("high")}
    /\ FieldOf(out.results[1], "grade") = Str("unknown")
    /\ FieldOf(out.results[1], "ref").t = "string"
    /\ Len(FieldOf(out.results[1], "ref").v) >= 3
    /\ FieldOf(out.results[1], "origin") \in {Str("web"), Str("mail")}

(***************************************************************************)
(* C22: enum fields                                                        *)
(***************************************************************************)
\* the values generated for the fields of tag enum in val, generated as
\* field of the given type, each with the field whose enum list applies
RECURSIVE Enumerated(_, _, _)
Enumerated(val, field, type) ==
  CASE type.k = "object" ->
         UNION {Enumerated(val.f[i][2], type.fields[i][1], type.fields[i][2])
                  : i \in 1..Len(type.fields)}
    [] type.k = "array" ->
         UNION {Enumerated(val.a[i], field, type.elem) : i \in 1..Len(val.a)}
    [] OTHER ->
         IF type.tag = "enum" THEN {[field |-> field, value |-> val]} ELSE {}

\* the enum list of a field as values, empty when the template has none
EnumValues(template, field) ==
  IF Lookup(template, "enums", field) = << >> THEN {}
  ELSE {Str(Lookup(template, "enums", field)[1][i])
          : i \in 1..Len(Lookup(template, "enums", field)[1])}

\* C22: the value of every field of type enum is a member of the field's
\* enum list when the list is not empty, and is "unknown" when the template
\* has no list or an empty list for the field; it is never undefined, with
\* variations on or off.
C22_EnumMembership ==
  \A out \in Returned : \A k \in 1..Len(out.results) :
    \A e \in Enumerated(out.results[k], "", ObjectOf(out.template.schema)) :
      IF EnumValues(out.template, e.field) = {}
      THEN e.value = Str("unknown")
      ELSE e.value \in EnumValues(out.template, e.field)

(***************************************************************************)
(* C23: the variation transform                                            *)
(***************************************************************************)
\* the data pool of a field as values, empty when the template has none
PoolValues(template, field) ==
  IF Lookup(template, "data", field) = << >> THEN {}
  ELSE {Str(Lookup(template, "data", field)[1][i])
          : i \in 1..Len(Lookup(template, "data", field)[1])}

\* the top-level fields of the given tag that have a non-empty data pool
Pooled(template, tag) ==
  {i \in 1..Len(template.schema) :
     /\ template.schema[i][2] = Tag(tag)
     /\ PoolValues(template, template.schema[i][1]) # {}}

\* val is the pool member p as the variation transform leaves it when the
\* draw that picked p left the PRNG in state s: the next draw below 0.3
\* appends an integer of 1..999, otherwise the draw after it below 0.2
\* appends a suffix, otherwise p is unchanged
Varied(val, p, s) ==
  IF 10 * NextSeed(s) < 3 * Modulus
  THEN \E n \in 1..999 : val = Str(p.v \o ToString(n))
  ELSE IF 10 * NextSeed(NextSeed(s)) < 2 * Modulus
  THEN \E i \in 1..Len(Suffixes) : val = Str(p.v \o Suffixes[i])
  ELSE val = p

\* C23: in the first record of a call a string field with a non-empty pool
\* is a pool member verbatim when variations is off, and a pool member varied
\* by the nested check when variations is on; a text field with a non-empty
\* pool is a pool member verbatim in both cases.
C23_VariationTransform ==
  \A out \in Returned :
    /\ \A i \in Pooled(out.template, "string") :
         \E p \in PoolValues(out.template, out.template.schema[i][1]) :
           IF VariationsOf(out.call.options)
           THEN Varied(out.results[1].f[i][2], p, NextSeed(FirstStateBefore(out, i)))
           ELSE out.results[1].f[i][2] = p
    /\ \A i \in Pooled(out.template, "text") :
         out.results[1].f[i][2] \in PoolValues(out.template, out.template.schema[i][1])

(***************************************************************************)
(* C24: arrays                                                             *)
(***************************************************************************)
\* the top-level fields of a template whose type is an array marker
Arrays(template) ==
  {i \in 1..Len(template.schema) : template.schema[i][2].k = "array"}

\* n elements of type elem generated one after the other from state s under
\* the name of the array field
RECURSIVE ElementsFrom(_, _, _, _, _, _, _)
ElementsFrom(s, n, field, elem, template, variations, clock) ==
  IF n <= 0 THEN << >>
  ELSE << generateFieldValue(s, field, elem, template, variations, clock).v >>
         \o ElementsFrom(generateFieldValue(s, field, elem, template, variations, clock).s,
                         n - 1, field, elem, template, variations, clock)

\* C24: every array of every record has 1 to 5 elements, and in the first
\* record of a call the elements of an array field are the values that the
\* rule of the element type gives one after the other under the array
\* field's own name, starting after the draw of the length.
C24_ArrayLengthAndElements ==
  \A out \in Returned :
    \A i \in Arrays(out.template) :
      /\ \A k \in 1..Len(out.results) :
           /\ out.results[k].f[i][2].t = "array"
           /\ Len(out.results[k].f[i][2].a) \in 1..5
      /\ out.results[1].f[i][2].a
           = ElementsFrom(NextSeed(FirstStateBefore(out, i)),
                          Len(out.results[1].f[i][2].a),
                          out.template.schema[i][1], out.template.schema[i][2].elem,
                          out.template, VariationsOf(out.call.options), out.call.clock)

(***************************************************************************)
(* C25: fields of nested objects                                           *)
(***************************************************************************)
\* the top-level fields of a template whose type is a nested schema
Objects(template) ==
  {i \in 1..Len(template.schema) : template.schema[i][2].k = "object"}

\* what generateFieldValue returns for a field of that name and type reached
\* in state s: the value a top-level field of the same name would get
AsTopLevel(s, entry, out) ==
  generateFieldValue(s, entry[1], entry[2], out.template,
                     VariationsOf(out.call.options), out.call.clock).v

\* C25: in the first record of a call every field of a nested object has the
\* value that a top-level field of the same local name and type gets from the
\* same PRNG state: it is generated with the constraints, the enum list and
\* the data pool registered under its own name.
C25_FlatNamespace ==
  \A out \in Returned :
    \A i \in Objects(out.template) :
      \A j \in 1..Len(out.template.schema[i][2].fields) :
        out.results[1].f[i][2].f[j]
          = << out.template.schema[i][2].fields[j][1],
               AsTopLevel(StateBefore(FirstStateBefore(out, i),
                                      out.template.schema[i][2].fields, j,
                                      out.template, VariationsOf(out.call.options),
                                      out.call.clock),
                          out.template.schema[i][2].fields[j], out) >>

\* a catalog record from a non-negative state whose nested width lies within
\* the bounds 1..9 registered under the name width
C25_Witness ==
  \E out \in Returned :
    /\ out.call.templateName = "catalog"
    /\ InRange(out.call.seedBefore)
    /\ FieldOf(FieldOf(out.results[1], "size"), "width").t = "number"
    /\ AtLeast(FieldOf(FieldOf(out.results[1], "size"), "width"), Rat(1, 1))
    /\ AtMost(FieldOf(FieldOf(out.results[1], "size"), "width"), Rat(9, 1))
    /\ FieldOf(FieldOf(out.results[1], "size"), "unit") = Str("unknown")

(***************************************************************************)
(* C26: tag filtering in the beforeEach of a suite                         *)
(***************************************************************************)
\* C26: a test whose suite filters by the allowed tags in beforeEach and
\* whose body declared tags has run to completion only if one of the
\* declared tags is allowed.
C26_FilterStopsUnmatched ==
  (test.pc = "passed" /\ test.declared # << >>)
    => \E i \in 1..Len(test.declared) : test.declared[i] \in Range(test.allowed)

(***************************************************************************)
(* C27: when the uniqueness warning is logged                              *)
(***************************************************************************)
\* C27: in unique mode an iteration logged the uniqueness warning only if
\* the record it emitted has the key of a record emitted earlier in the same
\* call.
C27_WarningOnlyForDuplicate ==
  \A out \in Returned :
    UniqueOf(out.call.options) =>
      \A w \in 1..Len(out.warned) :
        \E k \in 1..out.warned[w] :
          JSONStringify(out.results[k]) = JSONStringify(out.results[out.warned[w] + 1])

(***************************************************************************)
(* C28: a failed call leaves no trace                                      *)
(***************************************************************************)
\* the Map of templates of slot i before its call k: the templates of the
\* calls before k that returned
CacheBefore(i, k) ==
  [name \in {hist[i][j].call.templateName : j \in {n \in 1..(k - 1) : hist[i][n].kind = "ok"}} |->
     hist[i][CHOOSE j \in 1..(k - 1) :
               /\ hist[i][j].kind = "ok"
               /\ hist[i][j].call.templateName = name].template]

\* the template files as call saw them, for the template it named
FilesAt(call) ==
  IF call.stored = << >> THEN EmptyMap ELSE call.templateName :> call.stored[1]

\* what call k + 1 of slot i gives when it is made on the generator as it
\* was before call k
WithoutCall(i, k) ==
  generate([gen[i] EXCEPT !.currentSeed = hist[i][k].call.seedBefore,
                          !.templates = CacheBefore(i, k)],
           FilesAt(hist[i][k + 1].call), hist[i][k + 1].call.templateName,
           hist[i][k + 1].call.options, hist[i][k + 1].call.clock)

\* C28: after a call that failed with template-not-found the generator is as
\* it was before: the PRNG state is the one the call started from, and the
\* next call on the instance has the outcome, and leaves the generator in the
\* state, that it would have without the failed call.
C28_FailedCallLeavesNoTrace ==
  \A i \in Inst : \A k \in 1..Len(hist[i]) :
    hist[i][k].kind = "error" =>
      /\ k = Len(hist[i]) =>
           /\ gen[i].currentSeed = hist[i][k].call.seedBefore
           /\ gen[i].templates = CacheBefore(i, k)
      /\ k < Len(hist[i]) =>
           /\ hist[i][k + 1].call.seedBefore = hist[i][k].call.seedBefore
           /\ hist[i][k + 1] = WithoutCall(i, k).out
           /\ k + 1 = Len(hist[i]) => gen[i] = WithoutCall(i, k).gen

\* a call failed because the template file was gone, and the next call on
\* the same instance returned records
C28_Witness ==
  \E i \in Inst : \E k \in 1..(Len(hist[i]) - 1) :
    /\ hist[i][k].kind = "error"
    /\ hist[i][k + 1].kind = "ok"
    /\ Len(hist[i][k + 1].results) > 0

(***************************************************************************)
(* C29: the records do not depend on the clock                             *)
(***************************************************************************)
\* C29: two generators constructed with the same non-zero seed return the
\* same records for the same template and options from the same PRNG state,
\* whatever the time at which each call is made.
C29_ClockIndependent ==
  \A a \in 1..Len(hist[1]) : \A b \in 1..Len(hist[2]) :
    ( /\ gen[1].seedArg = gen[2].seedArg
      /\ gen[1].seedArg \notin {<< >>, << 0 >>}
      /\ hist[1][a].kind = "ok"
      /\ hist[2][b].kind = "ok"
      /\ hist[1][a].call.seedBefore = hist[2][b].call.seedBefore
      /\ hist[1][a].call.templateName = hist[2][b].call.templateName
      /\ hist[1][a].call.options = hist[2][b].call.options )
      => hist[1][a].results = hist[2][b].results

\* the key that the script compares: the email of a user, the id otherwise
KeyOf(template, record) ==
  IF template = Str("user") THEN FieldOf(record, "email") ELSE FieldOf(record, "id")

\* the records of the run have pairwise-distinct keys
DistinctKeys(c) ==
  \A j, k \in 1..Len(c.data) :
    j # k => KeyOf(c.template, c.data[j]) # KeyOf(c.template, c.data[k])

====
